---------------------------- MODULE Spec2Model ----------------------------
(***************************************************************************)
(* A model of the Jinx compilation pipeline: the single-pass parser of     *)
(* Source/JxParser.cpp emitting bytecode, and the Runtime facade of        *)
(* Source/JxRuntime.cpp that drives it.                                    *)
(*                                                                         *)
(* The parser consumes its symbol list one source line at a time.  The     *)
(* model keeps the parser's fields as variables and feeds it one line per  *)
(* step; a handler that spans several lines (ParseLoop, ParseIfElse,       *)
(* ParseFunctionDefinition, a begin block) is suspended on callStack, the  *)
(* model's picture of the C++ call stack, with the locals it needs to      *)
(* finish.  Inside one line the recursive-descent code is translated as    *)
(* recursive operators over a parser record p.                             *)
(***************************************************************************)
EXTENDS Integers, Sequences, FiniteSets, TLC

(***************************************************************************)
(* Bounds of the model.                                                    *)
(***************************************************************************)
MaxLines == 5

MaxDepth == 3

MaxOperands == 3

(***************************************************************************)
(* Symbols.  A symbol has a type, a text (names, keywords and strings) and *)
(* an integer value (integer literals).  A name of several words is a      *)
(* sequence of words; its text joins the words with single spaces.         *)
(***************************************************************************)
Sym(type, text, intVal) == [type |-> type, text |-> text, intVal |-> intVal]

N(text) == Sym("NameValue", text, 0)

I(n) == Sym("IntegerValue", "", n)

K(type, text) == Sym(type, text, 0)

O(type) == Sym(type, "", 0)

NL == Sym("NewLine", "", 0)

KeywordTypes ==
    {"And", "As", "Begin", "Boolean", "Break", "By", "Collection", "Decrement",
     "Else", "End", "Erase", "External", "From", "Function", "Guid", "If",
     "Import", "Increment", "Integer", "Library", "Loop", "Not", "Null",
     "Number", "Or", "Over", "Private", "Public", "Readonly", "Return", "Set",
     "String", "To", "Type", "Until", "Wait", "While"}

OperatorTypes ==
    {"Asterisk", "Comma", "CurlyOpen", "CurlyClose", "Equals", "ForwardSlash",
     "GreaterThan", "GreaterThanEquals", "LessThan", "LessThanEquals", "Minus",
     "NotEquals", "ParenOpen", "ParenClose", "Percent", "Plus", "SquareOpen",
     "SquareClose"}

ValueTypes == {"NumberValue", "IntegerValue", "BooleanValue", "StringValue"}

IsKeyword(type) == type \in KeywordTypes

IsOperator(type) == type \in OperatorTypes

IsValue(type) == type \in ValueTypes

RECURSIVE NameText(_)
NameText(name) ==
    IF Len(name) = 0 THEN ""
    ELSE IF Len(name) = 1 THEN name[1]
    ELSE name[1] \o " " \o NameText(Tail(name))

(***************************************************************************)
(* Bytecode.  The buffer is a sequence of byte cells; the cell at index    *)
(* i + 1 is the byte at offset i.  A cell records what the writer put      *)
(* there: k is the kind of write, op the opcode or the text of a string,   *)
(* b the byte value (or the position inside a string).                     *)
(***************************************************************************)
Cell(k, op, b) == [k |-> k, op |-> op, b |-> b]

\* The w bytes of n, least significant first (two's complement for n < 0).
RECURSIVE Bytes(_, _, _)
Bytes(k, n, w) ==
    IF w = 0 THEN <<>>
    ELSE <<Cell(k, "", n % 256)>> \o Bytes(k, n \div 256, w - 1)

HeaderSize == 16

BytecodeHeader == [i \in 1..HeaderSize |-> Cell("hdr", "", 0)]

Tell(p) == Len(p.m_bytecode)

WriteCells(p, cells) == [p EXCEPT !.m_bytecode = @ \o cells]

EmitOpcode(p, opcode) == WriteCells(p, <<Cell("op", opcode, 0)>>)

EmitAddress(p, address) == WriteCells(p, Bytes("u32", address, 4))

EmitCount(p, count) == WriteCells(p, Bytes("u32", count, 4))

StringCells(text) ==
    Bytes("u32", Len(text), 4) \o [i \in 1..Len(text) |-> Cell("chr", text, i)]

EmitName(p, name) == WriteCells(p, StringCells(NameText(name)))

EmitId(p, id) == WriteCells(p, Bytes("id", id, 8))

EmitIndex(p, index) == WriteCells(p, Bytes("u32", index, 4))

EmitValueType(p, valueType) == WriteCells(p, <<Cell("vt", valueType, 0)>>)

\* Variant::Write: a one-byte tag, then the payload (8 bytes for an integer,
\* one byte for a value type, nothing for null).
EmitValue(p, value) ==
    IF value.type = "Integer"
    THEN WriteCells(p, <<Cell("tag", "Integer", 0)>>
                       \o Bytes("int", value.v, 8))
    ELSE IF value.type = "ValType"
    THEN WriteCells(p, <<Cell("tag", "ValType", 0), Cell("vt", value.t, 0)>>)
    ELSE WriteCells(p, <<Cell("tag", value.type, 0)>>)

EmitAddressPlaceholder(p) == WriteCells(p, Bytes("u32", 0, 4))

\* Seek(address), Write(uint32(current)) without the Seek(current) that
\* restores the append position: the writer stays behind the four bytes.
EmitAddressBackfillNoRestore(p, address) ==
    [p EXCEPT !.m_bytecode =
        SubSeq(@, 1, address) \o Bytes("u32", Len(@), 4)]

\* Seek(address), Write(uint32(current)), Seek(current): the four bytes at
\* address are overwritten, the append position is restored.
EmitAddressBackfill(p, address) ==
    LET current == Tell(p)
        word == Bytes("u32", current, 4)
    IN  [p EXCEPT !.m_bytecode =
            [i \in 1..Len(@) |->
                IF i > address /\ i <= address + 4 THEN word[i - address]
                ELSE @[i]]]

(***************************************************************************)
(* The library registry.  A library holds property names and function      *)
(* signatures.  RuntimeIDs are a stable injective hash of the library name *)
(* and the property name or signature.                                     *)
(***************************************************************************)
LibUniverse == <<"", "a", "b", "c">>

WordUniverse ==
    <<"p", "q", "r", "x", "y", "i", "f", "g", "h", "my", "fn", "import",
      "a">>

IndexOf(seq, e) == CHOOSE i \in 1..Len(seq) : seq[i] = e

RECURSIVE WordsCode(_)
WordsCode(words) ==
    IF Len(words) = 0 THEN 0
    ELSE IndexOf(WordUniverse, words[1]) + 16 * WordsCode(Tail(words))

PropertyId(libName, name) ==
    4096 * IndexOf(LibUniverse, libName) + WordsCode(name)

InvalidID == 0

\* PropertyName(): the default-constructed, invalid property name.
NoPropertyName ==
    [valid |-> FALSE, visibility |-> "Local", readOnly |-> FALSE,
     lib |-> "", name |-> <<>>, id |-> InvalidID]

PropertyName(visibility, readOnly, libName, name) ==
    [valid |-> TRUE, visibility |-> visibility, readOnly |-> readOnly,
     lib |-> libName, name |-> name, id |-> PropertyId(libName, name)]

\* A signature part: a name part (its alternative names, optional or not)
\* or a parameter part (its local name and declared value type).
NamePart(names, optional) ==
    [partType |-> "Name", names |-> names, optional |-> optional,
     valueType |-> "Null"]

ParameterPart(names, valueType) ==
    [partType |-> "Parameter", names |-> names, optional |-> FALSE,
     valueType |-> valueType]

RECURSIVE PartsCode(_)
PartsCode(parts) ==
    IF Len(parts) = 0 THEN 0
    ELSE (IF parts[1].partType = "Name"
          THEN 1 + IndexOf(WordUniverse, parts[1].names[1])
          ELSE 1) + 16 * PartsCode(Tail(parts))

SignatureId(libName, parts) ==
    1048576 * IndexOf(LibUniverse, libName) + PartsCode(parts)

NoSignature ==
    [valid |-> FALSE, visibility |-> "Local", returns |-> FALSE, lib |-> "",
     parts |-> <<>>, id |-> InvalidID]

FunctionSignature(visibility, returns, libName, parts) ==
    [valid |-> TRUE, visibility |-> visibility, returns |-> returns,
     lib |-> libName, parts |-> parts, id |-> SignatureId(libName, parts)]

EmptyLibrary == [props |-> {}, fns |-> <<>>]

GetLibraryInternal(p, libName) ==
    IF libName \in DOMAIN p.m_libraryMap THEN p.m_libraryMap[libName]
    ELSE EmptyLibrary

LibraryExists(p, libName) == libName \in DOMAIN p.m_libraryMap

PropertyNameExists(library, name) == \E pn \in library.props : pn.name = name

GetPropertyName(library, name) ==
    IF PropertyNameExists(library, name)
    THEN CHOOSE pn \in library.props : pn.name = name
    ELSE NoPropertyName

SetMax(S) == IF S = {} THEN 0 ELSE CHOOSE m \in S : \A n \in S : n <= m

GetMaxPropertyParts(library) == SetMax({Len(pn.name) : pn \in library.props})

\* RegisterPropertyName(propertyName, checkForDuplicates): false when the
\* name is already registered in the library.
RegisterPropertyName(p, libName, propertyName) ==
    LET library == GetLibraryInternal(p, libName)
    IN  [p EXCEPT !.m_libraryMap =
            [n \in DOMAIN @ \cup {libName} |->
                IF n = libName
                THEN [library EXCEPT !.props = @ \cup {propertyName}]
                ELSE @[n]]]

\* One signature part against the call's parts from position j on: the
\* position after the match, or 0 when there is none.  An optional name part
\* may be left out of the call.
RECURSIVE MatchParts(_, _, _, _)
MatchParts(sigParts, i, callParts, j) ==
    IF i > Len(sigParts) THEN TRUE
    ELSE LET sp == sigParts[i]
             here == /\ j <= Len(callParts)
                     /\ callParts[j].partType = sp.partType
                     /\ \/ sp.partType = "Parameter"
                        \/ \E n \in 1..Len(sp.names) :
                              sp.names[n] = callParts[j].names[1]
         IN  \/ here /\ MatchParts(sigParts, i + 1, callParts, j + 1)
             \/ sp.optional /\ MatchParts(sigParts, i + 1, callParts, j)

IsMatch(signature, callParts) == MatchParts(signature.parts, 1, callParts, 1)

\* FunctionTable::Find: the first registered signature the parts match.
Find(table, callParts) ==
    IF \E i \in 1..Len(table) : IsMatch(table[i], callParts)
    THEN table[CHOOSE i \in 1..Len(table) :
                  /\ IsMatch(table[i], callParts)
                  /\ \A k \in 1..(i - 1) : ~IsMatch(table[k], callParts)]
    ELSE NoSignature

SignatureExists(table, signature) ==
    \E i \in 1..Len(table) : table[i].id = signature.id

(***************************************************************************)
(* VariableStackFrame: a stack of frames, each a stack of scopes, each a   *)
(* set of variable names.                                                  *)
(***************************************************************************)
RootFrames == << << {} >> >>

TopFrame(vsf) == vsf[Len(vsf)]

FrameNames(vsf) == UNION {TopFrame(vsf)[s] : s \in 1..Len(TopFrame(vsf))}

VsfVariableExists(vsf, name) == name \in FrameNames(vsf)

VsfVariableAssign(vsf, name) ==
    IF VsfVariableExists(vsf, name) THEN vsf
    ELSE [vsf EXCEPT ![Len(vsf)] =
            [@ EXCEPT ![Len(@)] = @ \cup {name}]]

GetMaxVariableParts(vsf) == SetMax({Len(n) : n \in FrameNames(vsf)})

IsRootFrame(vsf) == Len(vsf) = 1

IsRootScope(vsf) == Len(TopFrame(vsf)) = 1

(***************************************************************************)
(* Parser primitives.  p.line is the line being parsed, p.cur the position *)
(* of m_currentSymbol in it; a position past the line's NewLine is treated *)
(* as the end of the symbol list.                                          *)
(***************************************************************************)
AtEnd(p) == p.cur > Len(p.line)

Cur(p) == p.line[p.cur]

\* Error(): the first error sets the sticky flag and records its message.
Error(p, message) ==
    IF p.m_error THEN p
    ELSE [p EXCEPT !.m_error = TRUE, !.errorText = message]

NextSymbol(p) == [p EXCEPT !.cur = @ + 1]

Check(p, symbol) == ~p.m_error /\ ~AtEnd(p) /\ Cur(p).type = symbol

\* Accept consumes the symbol when Check holds; Expect flags an error when
\* it does not.
Accept(p, symbol) == IF Check(p, symbol) THEN NextSymbol(p) ELSE p

Expect(p, symbol) ==
    IF Check(p, symbol) THEN NextSymbol(p)
    ELSE Error(p, "Expected symbol " \o symbol)

IsSymbolValid(p, pos) ==
    /\ ~p.m_error
    /\ pos <= Len(p.line)
    /\ p.line[pos].type # "NewLine"

CheckBinaryOperator(p) ==
    /\ ~p.m_error /\ ~AtEnd(p)
    /\ Cur(p).type \in {"Asterisk", "Equals", "NotEquals", "ForwardSlash",
                        "GreaterThan", "GreaterThanEquals", "LessThan",
                        "LessThanEquals", "Minus", "Percent", "Plus"}

CheckName(p) == ~p.m_error /\ ~AtEnd(p) /\ Cur(p).type = "NameValue"

CheckValue(p) ==
    /\ ~p.m_error /\ ~AtEnd(p)
    /\ Cur(p).type \in {"NumberValue", "IntegerValue", "BooleanValue",
                        "StringValue", "Null"}

CheckValueType(p) ==
    /\ ~p.m_error /\ ~AtEnd(p)
    /\ Cur(p).type \in {"Number", "Integer", "Boolean", "String",
                        "Collection", "Guid", "Null"}

CheckFunctionNamePart(p) ==
    /\ ~p.m_error /\ ~AtEnd(p)
    /\ (Cur(p).type = "NameValue" \/ IsKeyword(Cur(p).type))

VariableExists(p, name) == VsfVariableExists(p.m_variableStackFrame, name)

VariableAssign(p, name) ==
    [p EXCEPT !.m_variableStackFrame = VsfVariableAssign(@, name)]

\* Call(name, p, args) is the call of the parser's member function name on
\* the parser p with the arguments args.
RECURSIVE Call(_, _, _)

(***************************************************************************)
(* Name resolution.  Names of variables and properties have one or two     *)
(* words here, so the longest-first scans below never leave the line.      *)
(***************************************************************************)
NullLibrary == "nullptr"

IsLibraryName(p, name) ==
    \/ name = p.m_library
    \/ \E i \in 1..Len(p.m_importList) : p.m_importList[i] = name

\* The library named by the current symbol: the current library or the
\* first import with that name; the empty string when there is none.
CheckLibraryName(p) ==
    IF AtEnd(p) THEN ""
    ELSE IF Cur(p).type = "NameValue" \/ IsKeyword(Cur(p).type)
         THEN IF IsLibraryName(p, Cur(p).text) THEN Cur(p).text ELSE ""
         ELSE ""

\* The candidate name of s symbols starting at pos, as CheckVariable builds
\* it: the scan gives up at the first invalid symbol.
StrictCandidate(p, pos, s) ==
    [ok    |-> \A i \in 1..(s - 1) :
                  IsSymbolValid(p, pos + i) /\ p.line[pos + i].text # "",
     name  |-> IF pos + s - 1 <= Len(p.line)
               THEN [i \in 1..s |-> p.line[pos + i - 1].text]
               ELSE <<>>,
     count |-> s]

RECURSIVE SkipTexts(_, _, _)
SkipTexts(p, pos, n) ==
    IF n = 0 THEN <<>>
    ELSE IF IsSymbolValid(p, pos) /\ p.line[pos].text # ""
         THEN <<p.line[pos].text>> \o SkipTexts(p, pos + 1, n - 1)
         ELSE SkipTexts(p, pos + 1, n - 1)

\* The candidate name of up to s symbols starting at pos, as ParseVariable,
\* CheckPropertyName and ParsePropertyNameParts build it: an invalid symbol
\* is skipped (continue) and the scan goes on.
SkipCandidate(p, pos, s) ==
    LET name == <<p.line[pos].text>> \o SkipTexts(p, pos + 1, s - 1)
    IN  [ok |-> TRUE, name |-> name, count |-> Len(name)]

NoMatch == [ok |-> FALSE, name |-> <<>>, count |-> 0]

RECURSIVE CheckVariableFrom(_, _, _)
CheckVariableFrom(p, pos, s) ==
    IF s = 0 THEN NoMatch
    ELSE LET c == StrictCandidate(p, pos, s)
         IN  IF c.ok /\ VariableExists(p, c.name) THEN c
             ELSE CheckVariableFrom(p, pos, s - 1)

CheckVariable(p, pos) ==
    IF p.m_error \/ pos > Len(p.line) THEN NoMatch
    ELSE IF p.line[pos].type # "NameValue" THEN NoMatch
    ELSE CheckVariableFrom(p, pos,
                           GetMaxVariableParts(p.m_variableStackFrame))

RECURSIVE CheckPropertyNameFrom(_, _, _, _)
CheckPropertyNameFrom(p, library, pos, s) ==
    IF s = 0 THEN NoMatch
    ELSE LET c == SkipCandidate(p, pos, s)
         IN  IF PropertyNameExists(library, c.name) THEN c
             ELSE CheckPropertyNameFrom(p, library, pos, s - 1)

CheckPropertyName(p, library, pos) ==
    IF p.m_error \/ pos > Len(p.line) THEN NoMatch
    ELSE IF p.line[pos].type # "NameValue" THEN NoMatch
    ELSE CheckPropertyNameFrom(p, library, pos, GetMaxPropertyParts(library))

RECURSIVE CheckPropertyImports(_, _, _)
CheckPropertyImports(p, pos, i) ==
    IF i > Len(p.m_importList) THEN NoMatch
    ELSE LET importName == p.m_importList[i]
             c == Call("CheckPropertyName", p, <<GetLibraryInternal(p, importName), pos>>)
         IN  IF importName # p.m_library /\ c.ok THEN c
             ELSE CheckPropertyImports(p, pos, i + 1)

\* CheckProperty(currSym, symCount).  The library prefix is looked for at
\* m_currentSymbol, whatever currSym is.
CheckProperty(p, pos) ==
    IF p.m_error \/ pos > Len(p.line) THEN NoMatch
    ELSE IF p.line[pos].type # "NameValue" THEN NoMatch
    ELSE LET libraryName == CheckLibraryName(p)
         IN  IF libraryName # ""
             THEN IF pos + 1 > Len(p.line) THEN NoMatch
                  ELSE IF p.line[pos + 1].type # "NameValue" THEN NoMatch
                  ELSE Call("CheckPropertyName", p, <<GetLibraryInternal(p, libraryName), pos + 1>>)
             ELSE LET c == Call("CheckPropertyName", p, <<GetLibraryInternal(p, p.m_library), pos>>)
                  IN  IF c.ok THEN c ELSE CheckPropertyImports(p, pos, 1)

\* The position of the bracket closing the one at pos, or 0 when the line
\* ends first.
RECURSIVE SkipBalanced(_, _, _, _, _)
SkipBalanced(p, pos, parenCount, open, close) ==
    LET next == pos + 1
    IN  IF next > Len(p.line) THEN 0
        ELSE IF p.line[next].type = "NewLine" THEN 0
        ELSE IF p.line[next].type = close
             THEN IF parenCount = 1 THEN next
                  ELSE SkipBalanced(p, next, parenCount - 1, open, close)
        ELSE IF p.line[next].type = open
             THEN SkipBalanced(p, next, parenCount + 1, open, close)
        ELSE SkipBalanced(p, next, parenCount, open, close)

\* The scan of CheckFunctionCall: the signature parts of the symbols from
\* pos to the end of the line or the first operator.
RECURSIVE ScanParts(_, _, _)
ScanParts(p, pos, parts) ==
    IF ~IsSymbolValid(p, pos) THEN [abort |-> FALSE, parts |-> parts]
    ELSE
    LET t == p.line[pos]
        parameter == ParameterPart(<<>>, "Null")
    IN  IF t.type = "NameValue" \/ IsKeyword(t.type)
        THEN LET v == Call("CheckVariable", p, <<pos>>)
                 c == Call("CheckProperty", p, <<pos>>)
                 from == IF IsLibraryName(p, t.text) THEN pos + 1 ELSE pos
             IN  IF v.ok
                 THEN ScanParts(p, pos + v.count, Append(parts, parameter))
                 ELSE IF c.ok
                 THEN IF from # pos /\ ~IsSymbolValid(p, from)
                      THEN [abort |-> TRUE, parts |-> parts]
                      ELSE ScanParts(p, from + c.count,
                                     Append(parts, parameter))
                 ELSE ScanParts(p, pos + 1,
                                Append(parts, NamePart(<<t.text>>, FALSE)))
        ELSE IF IsValue(t.type)
        THEN ScanParts(p, pos + 1, Append(parts, parameter))
        ELSE IF t.type \in {"ParenOpen", "SquareOpen"}
        THEN LET close == IF t.type = "ParenOpen"
                          THEN SkipBalanced(p, pos, 1, "ParenOpen",
                                            "ParenClose")
                          ELSE SkipBalanced(p, pos, 1, "SquareOpen",
                                            "SquareClose")
             IN  IF close = 0 THEN [abort |-> TRUE, parts |-> parts]
                 ELSE ScanParts(p, close + 1, Append(parts, parameter))
        ELSE IF IsOperator(t.type)
        THEN [abort |-> FALSE, parts |-> parts]
        ELSE ScanParts(p, pos + 1, parts)

\* The loop over m_importList that stops at the first import that matches.
RECURSIVE FindInImportsFirstMatch(_, _, _, _)
FindInImportsFirstMatch(p, parts, i, functionSignature) ==
    IF i > Len(p.m_importList) THEN functionSignature
    ELSE LET fnSig == Find(GetLibraryInternal(p, p.m_importList[i]).fns,
                           parts)
         IN  IF fnSig.valid THEN fnSig
             ELSE FindInImportsFirstMatch(p, parts, i + 1, functionSignature)

\* The loop over m_importList of CheckFunctionCall.
RECURSIVE FindInImports(_, _, _, _)
FindInImports(p, parts, i, functionSignature) ==
    IF i > Len(p.m_importList) THEN functionSignature
    ELSE LET libName == p.m_importList[i]
             fnSig == Find(GetLibraryInternal(p, libName).fns, parts)
         IN  IF ~LibraryExists(p, libName)
             THEN FindInImports(p, parts, i + 1, functionSignature)
             ELSE IF ~fnSig.valid
             THEN FindInImports(p, parts, i + 1, functionSignature)
             ELSE IF functionSignature.valid THEN NoSignature
             ELSE IF fnSig.visibility = "Private" /\ libName # p.m_library
             THEN NoSignature
             ELSE FindInImports(p, parts, i + 1, fnSig)

\* The table searches without the search of the default library.
FindFunctionSignatureNoDefault(p, libraryName, parts) ==
    IF libraryName # ""
    THEN Find(GetLibraryInternal(p, libraryName).fns, parts)
    ELSE LET local == Find(p.m_localFunctions, parts)
             current == Find(GetLibraryInternal(p, p.m_library).fns, parts)
         IN  IF local.valid THEN local
             ELSE IF current.valid THEN current
             ELSE FindInImports(p, parts, 1, NoSignature)

\* The table searches of CheckFunctionCall for a non-empty parts list.
FindFunctionSignature(p, libraryName, parts) ==
    IF libraryName # ""
    THEN Find(GetLibraryInternal(p, libraryName).fns, parts)
    ELSE LET local == Find(p.m_localFunctions, parts)
             current == Find(GetLibraryInternal(p, p.m_library).fns, parts)
             default == Find(GetLibraryInternal(p, "").fns, parts)
         IN  IF local.valid THEN local
             ELSE IF current.valid THEN current
             ELSE IF default.valid THEN default
             ELSE FindInImports(p, parts, 1, NoSignature)

CheckFunctionCall(p) ==
    IF p.m_error \/ AtEnd(p) THEN NoSignature
    ELSE IF IsOperator(Cur(p).type) /\ Cur(p).type # "ParenOpen"
    THEN NoSignature
    ELSE LET libraryName == CheckLibraryName(p)
             start == IF libraryName # "" THEN p.cur + 1 ELSE p.cur
             scan == ScanParts(p, start, <<>>)
         IN  IF start > Len(p.line) THEN NoSignature
             ELSE IF scan.abort \/ scan.parts = <<>> THEN NoSignature
             ELSE Call("FindFunctionSignature", p, <<libraryName, scan.parts>>)

(***************************************************************************)
(* Parsing of names.  An operator that returns a value leaves it in p.ret. *)
(***************************************************************************)
Return(p, value) == [p EXCEPT !.ret = value]

ParseName(p) ==
    IF p.m_error \/ AtEnd(p) THEN Return(p, "")
    ELSE IF Cur(p).type # "NameValue"
    THEN Return(Error(p, "Unexpected symbol type when parsing name"), "")
    ELSE Return(NextSymbol(p), Cur(p).text)

RECURSIVE ParseMultiNameLoop(_, _, _)
ParseMultiNameLoop(p, symbols, s) ==
    IF ~(IsSymbolValid(p, p.cur) /\ Cur(p).text # "") THEN Return(p, s)
    ELSE IF Cur(p).type # "NameValue" /\ Cur(p).type \in symbols
    THEN Return(p, s)
    ELSE ParseMultiNameLoop(NextSymbol(p), symbols, Append(s, Cur(p).text))

ParseMultiName(p, symbols) ==
    IF p.m_error \/ AtEnd(p) THEN Return(p, <<>>)
    ELSE IF Cur(p).type # "NameValue"
    THEN Return(Error(p, "Unexpected symbol type when parsing name"), <<>>)
    ELSE ParseMultiNameLoop(NextSymbol(p), symbols, <<Cur(p).text>>)

RECURSIVE ParseVariableFrom(_, _)
ParseVariableFrom(p, s) ==
    IF s = 0
    THEN Return(Error(p, "Could not parse variable name"), <<>>)
    ELSE LET c == SkipCandidate(p, p.cur, s)
         IN  IF VariableExists(p, c.name)
             THEN Return([p EXCEPT !.cur = @ + c.count], c.name)
             ELSE ParseVariableFrom(p, s - 1)

ParseVariable(p) ==
    IF p.m_error \/ AtEnd(p) THEN Return(p, <<>>)
    ELSE IF Cur(p).type # "NameValue"
    THEN Return(Error(p, "Unexpected symbol type when parsing variable"),
                <<>>)
    ELSE ParseVariableFrom(p, GetMaxVariableParts(p.m_variableStackFrame))

RECURSIVE ParsePropertyNamePartsFrom(_, _, _)
ParsePropertyNamePartsFrom(p, library, s) ==
    IF s = 0 THEN Return(p, NoPropertyName)
    ELSE LET c == SkipCandidate(p, p.cur, s)
         IN  IF PropertyNameExists(library, c.name)
             THEN Return([p EXCEPT !.cur = @ + c.count],
                         GetPropertyName(library, c.name))
             ELSE ParsePropertyNamePartsFrom(p, library, s - 1)

ParsePropertyNameParts(p, library) ==
    IF p.m_error \/ AtEnd(p) THEN Return(p, NoPropertyName)
    ELSE IF Cur(p).type # "NameValue" THEN Return(p, NoPropertyName)
    ELSE ParsePropertyNamePartsFrom(p, library, GetMaxPropertyParts(library))

\* The loop over m_importList of ParsePropertyName.  library is the local
\* of that name: the library of the import visited last.
RECURSIVE ParsePropertyNameImports(_, _, _, _, _)
ParsePropertyNameImports(p, i, propertyName, foundProperty, library) ==
    IF i > Len(p.m_importList)
    THEN IF /\ propertyName.valid
            /\ library # p.m_library
            /\ propertyName.visibility # "Public"
         THEN Return(Error(p, "Unable to access private property"),
                     NoPropertyName)
         ELSE Return(p, propertyName)
    ELSE LET import == p.m_importList[i]
             q == Call("ParsePropertyNameParts", p, <<GetLibraryInternal(p, import)>>)
         IN  IF import = p.m_library
             THEN ParsePropertyNameImports(p, i + 1, propertyName,
                                           foundProperty, import)
             ELSE IF ~q.ret.valid
             THEN ParsePropertyNameImports(q, i + 1, q.ret, foundProperty,
                                           import)
             ELSE IF p.m_library # "" /\ q.ret.visibility # "Public"
             THEN ParsePropertyNameImports(q, i + 1, q.ret, foundProperty,
                                           import)
             ELSE IF foundProperty
             THEN Return(Error(q, "Ambiguous property name found"),
                         NoPropertyName)
             ELSE ParsePropertyNameImports(q, i + 1, q.ret, TRUE, import)

ParsePropertyNameBody(p) ==
    LET libraryName == CheckLibraryName(p)
    IN  IF libraryName # ""
        THEN LET q == ParseName(p)
                 r == Call("ParsePropertyNameParts", q, <<GetLibraryInternal(q, q.ret)>>)
             IN  IF ~r.ret.valid
                 THEN Return(Error(r, "Could not find property name"),
                             NoPropertyName)
                 ELSE IF p.m_library # q.ret /\ r.ret.visibility # "Public"
                 THEN Return(Error(r, "Unable to access private property"),
                             NoPropertyName)
                 ELSE r
        ELSE LET q == Call("ParsePropertyNameParts", p, <<GetLibraryInternal(p, p.m_library)>>)
             IN  IF q.ret.valid THEN q
                 ELSE ParsePropertyNameImports(q, 1, q.ret, FALSE,
                                               p.m_library)

\* ParsePropertyName; resolved records each call: the line and the cursor
\* in it, the property name returned and the number of symbols consumed.
ParsePropertyName(p) ==
    LET q == ParsePropertyNameBody(p)
    IN  [q EXCEPT !.resolved =
            Append(@, [line |-> p.line, at |-> p.cur,
                       propertyName |-> q.ret,
                       consumed |-> q.cur - p.cur])]

(***************************************************************************)
(* Expressions.  Values in the model are integers and null.                *)
(***************************************************************************)
Variant(type, v, t) == [type |-> type, v |-> v, t |-> t]

NullValue == Variant("Null", 0, "")

IntegerValue(n) == Variant("Integer", n, "")

\* The operator table with the rows of plus and minus exchanged.
BinaryOpcodeExchanged(type) ==
    CASE type = "Asterisk" -> "Multiply"
      [] type = "Equals" -> "Equals"
      [] type = "NotEquals" -> "NotEquals"
      [] type = "ForwardSlash" -> "Divide"
      [] type = "GreaterThan" -> "Greater"
      [] type = "GreaterThanEquals" -> "GreaterEq"
      [] type = "LessThan" -> "Less"
      [] type = "LessThanEquals" -> "LessEq"
      [] type = "Minus" -> "Add"
      [] type = "Percent" -> "Mod"
      [] type = "Plus" -> "Subtract"
      [] OTHER -> "NumOpcodes"

BinaryOpcode(type) ==
    CASE type = "Asterisk" -> "Multiply"
      [] type = "Equals" -> "Equals"
      [] type = "NotEquals" -> "NotEquals"
      [] type = "ForwardSlash" -> "Divide"
      [] type = "GreaterThan" -> "Greater"
      [] type = "GreaterThanEquals" -> "GreaterEq"
      [] type = "LessThan" -> "Less"
      [] type = "LessThanEquals" -> "LessEq"
      [] type = "Minus" -> "Subtract"
      [] type = "Percent" -> "Mod"
      [] type = "Plus" -> "Add"
      [] OTHER -> "NumOpcodes"

ParseBinaryOperator(p) ==
    IF p.m_error \/ AtEnd(p) THEN Return(p, "NumOpcodes")
    ELSE Return(NextSymbol(p), BinaryOpcode(Cur(p).type))

ParseValue(p) ==
    IF p.m_error \/ AtEnd(p) THEN Return(p, NullValue)
    ELSE IF Cur(p).type = "IntegerValue"
    THEN Return(NextSymbol(p), IntegerValue(Cur(p).intVal))
    ELSE IF Cur(p).type = "Null" THEN Return(NextSymbol(p), NullValue)
    ELSE Return(NextSymbol(Error(p, "Unknown value")), NullValue)

ParseValueType(p) ==
    IF p.m_error \/ AtEnd(p) THEN Return(p, "Null")
    ELSE IF Cur(p).type \in {"Number", "Integer", "Boolean", "String", "Null",
                             "Collection", "Guid"}
    THEN Return(NextSymbol(p), Cur(p).type)
    ELSE Return(Error(NextSymbol(p), "Unknown type"), "Null")

ParseFunctionNamePart(p) ==
    IF p.m_error \/ AtEnd(p) THEN Return(p, "")
    ELSE IF Cur(p).text = ""
    THEN Return(Error(p, "Unexpected symbol type when parsing function name"),
                "")
    ELSE Return(NextSymbol(p), Cur(p).text)

RECURSIVE ParseFunctionCallParts(_, _, _, _)
RECURSIVE ParseKeyValuePairs(_, _)
RECURSIVE ParseListItems(_, _)

ParseSubscript(p) ==
    IF p.m_error \/ AtEnd(p) THEN Return(p, FALSE)
    ELSE IF ~Check(p, "SquareOpen") THEN Return(p, FALSE)
    ELSE LET q == Call("ParseExpression", NextSymbol(p), <<FALSE>>)
         IN  Return(Expect(q, "SquareClose"), Check(q, "SquareClose"))

\* The loop over the signature's parts of ParseFunctionCall.  Signatures in
\* the model have no optional parts, so optionalCount stays 0 and a name
\* that does not match its part is a mismatch.
ParseFunctionCallParts(p, parts, i, count) ==
    IF i > Len(parts) THEN Return(p, TRUE)
    ELSE IF parts[i].partType = "Name"
    THEN IF CheckFunctionNamePart(p)
         THEN LET q == ParseFunctionNamePart(p)
              IN  IF \E n \in 1..Len(parts[i].names) :
                        parts[i].names[n] = q.ret
                  THEN ParseFunctionCallParts(q, parts, i + 1, count + 1)
                  ELSE Return(Error(q, "Mismatch in function name"), FALSE)
         ELSE Return(Error(p, "Expecting function name"), FALSE)
    ELSE IF Check(p, "ParenOpen")
    THEN ParseFunctionCallParts(
             Expect(Call("ParseExpression", NextSymbol(p), <<FALSE>>), "ParenClose"),
             parts, i + 1, count + 1)
    ELSE ParseFunctionCallParts(Call("ParseExpression", p, <<count <= 0>>),
                                parts, i + 1, count + 1)

ParseFunctionCall(p, signature) ==
    LET q == IF CheckLibraryName(p) # "" THEN NextSymbol(p) ELSE p
        r == ParseFunctionCallParts(q, signature.parts, 1, 0)
    IN  IF r.ret THEN EmitId(EmitOpcode(r, "CallFunc"), signature.id)
        ELSE r

\* The waiting operator emitted but left on the stack.
EmitPendingOpcodeNoPop(p) ==
    IF p.opcodeStack # <<>>
    THEN EmitOpcode(p, p.opcodeStack[Len(p.opcodeStack)])
    ELSE p

\* The operator waiting on the local opcode stack is emitted right after
\* the operand.
EmitPendingOpcode(p) ==
    IF p.opcodeStack # <<>>
    THEN [EmitOpcode(p, p.opcodeStack[Len(p.opcodeStack)])
            EXCEPT !.opcodeStack = SubSeq(@, 1, Len(@) - 1)]
    ELSE p

EmitTypeSuffix(p) ==
    IF Check(p, "Type") THEN EmitOpcode(NextSymbol(p), "Type") ELSE p

ParseSubexpressionOperand(p, suppressFunctionCall) ==
    IF p.m_error THEN p
    ELSE
    LET signature == IF ~suppressFunctionCall THEN Call("CheckFunctionCall", p, <<>>)
                     ELSE NoSignature
    IN  IF signature.valid
        THEN IF ~signature.returns
             THEN Error(p, "Function in expression requires a return parameter")
             ELSE EmitPendingOpcode(Call("ParseFunctionCall", p, <<signature>>))
        ELSE IF Call("CheckProperty", p, <<p.cur>>).ok
        THEN LET q == Call("ParsePropertyName", p, <<>>)
                 propertyName == q.ret
                 r == Call("ParseSubscript", q, <<>>)
             IN  IF ~propertyName.valid
                 THEN Error(q, "Unable to find property name in library")
                 ELSE EmitPendingOpcode(EmitTypeSuffix(EmitId(
                          EmitOpcode(r, IF r.ret THEN "PushPropKeyVal"
                                        ELSE "PushProp"),
                          propertyName.id)))
        ELSE IF Call("CheckVariable", p, <<p.cur>>).ok
        THEN LET q == Call("ParseVariable", p, <<>>)
                 name == q.ret
                 r == Call("ParseSubscript", q, <<>>)
             IN  EmitPendingOpcode(EmitTypeSuffix(EmitName(
                     EmitOpcode(r, IF r.ret THEN "PushVarKey" ELSE "PushVar"),
                     name)))
        ELSE IF \/ Check(p, "Comma") \/ Check(p, "ParenClose")
                \/ Check(p, "SquareClose") \/ Check(p, "To")
                \/ Check(p, "By")
        THEN p
        ELSE IF Check(p, "ParenOpen")
        THEN EmitPendingOpcode(
                 Expect(Call("ParseExpression", NextSymbol(p), <<FALSE>>), "ParenClose"))
        ELSE IF CheckValue(p)
        THEN LET q == ParseValue(p)
             IN  EmitPendingOpcode(EmitValue(EmitOpcode(q, "PushVal"), q.ret))
        ELSE IF CheckValueType(p)
        THEN LET q == ParseValueType(p)
             IN  EmitPendingOpcode(EmitValue(EmitOpcode(q, "PushVal"),
                                             Variant("ValType", 0, q.ret)))
        ELSE EmitPendingOpcode(Error(p, "Expected operand"))

\* One pass of the while loop of ParseSubexpressionOperation, then the
\* rest of the loop.
ParseSubexpressionOperation(p, suppressFunctionCall) ==
    IF p.m_error THEN p
    ELSE IF ~IsSymbolValid(p, p.cur) THEN p
    ELSE
    LET q == Call("ParseSubexpressionOperand", p, <<suppressFunctionCall>>)
        c == ParseValueType(EmitOpcode(NextSymbol(q), "Cast"))
        r == IF Check(q, "As") THEN EmitValueType(c, c.ret) ELSE q
        b == ParseBinaryOperator(r)
    IN  IF Check(q, "As") /\ c.m_error THEN c
        ELSE IF CheckBinaryOperator(r)
        THEN Call("ParseSubexpressionOperation", [b EXCEPT !.opcodeStack = Append(@, b.ret)], <<suppressFunctionCall>>)
        ELSE IF Check(r, "And") \/ Check(r, "Or")
        THEN Call("ParseSubexpressionOperation", EmitOpcode(Call("ParseExpression", NextSymbol(r), <<FALSE>>),
                            IF Cur(r).type = "And" THEN "And" ELSE "Or"), <<suppressFunctionCall>>)
        ELSE r

\* leftover records the size of the local opcode stack when the
\* subexpression ends.
ParseSubexpression(p, suppressFunctionCall) ==
    IF p.m_error THEN p
    ELSE IF Check(p, "NewLine") THEN Error(p, "Expected valid expression")
    ELSE
    LET saved == p.opcodeStack
        q == [p EXCEPT !.opcodeStack = <<>>]
        r == IF Check(q, "Not")
             THEN EmitOpcode(Call("ParseExpression", NextSymbol(q), <<FALSE>>), "Not")
             ELSE Call("ParseSubexpressionOperation", q, <<suppressFunctionCall>>)
        e == IF r.opcodeStack # <<>>
             THEN Error(r, "Syntax error when parsing expression")
             ELSE r
    IN  [e EXCEPT !.opcodeStack = saved,
                  !.leftover = IF Len(r.opcodeStack) > @
                               THEN Len(r.opcodeStack) ELSE @]

ParseKeyValuePairs(p, count) ==
    IF ~Check(p, "Comma")
    THEN EmitCount(EmitOpcode(p, "PushColl"), count)
    ELSE LET a == Expect(NextSymbol(p), "SquareOpen")
             b == Expect(Call("ParseSubexpression", a, <<FALSE>>), "Comma")
             c == Expect(Call("ParseSubexpression", b, <<FALSE>>), "SquareClose")
         IN  ParseKeyValuePairs(c, count + 1)

ParseListItems(p, count) ==
    LET q == Call("ParseSubexpression", p, <<FALSE>>)
    IN  IF Check(q, "Comma") THEN ParseListItems(NextSymbol(q), count + 1)
        ELSE EmitCount(EmitOpcode(q, "PushList"), count + 1)

ParseExpression(p, suppressFunctionCall) ==
    IF Check(p, "SquareOpen")
    THEN LET a == NextSymbol(p)
             b == Call("ParseSubexpression", a, <<suppressFunctionCall>>)
             c == Expect(Call("ParseExpression", NextSymbol(b), <<suppressFunctionCall>>),
                         "SquareClose")
         IN  IF Check(a, "SquareClose")
             THEN EmitCount(EmitOpcode(NextSymbol(a), "PushColl"), 0)
             ELSE IF Check(b, "Comma") THEN Call("ParseKeyValuePairs", c, <<1>>)
             ELSE Error(b, "Expected comma separating key-value pair")
    ELSE LET a == Call("ParseSubexpression", p, <<suppressFunctionCall>>)
         IN  IF ~Check(a, "Comma") THEN a
             ELSE IF Check(NextSymbol(a), "NewLine")
             THEN Error(NextSymbol(a), "Unexpected end of line in list")
             ELSE Call("ParseListItems", NextSymbol(a), <<1>>)

(***************************************************************************)
(* Scopes, frames and the suspended handlers.  A callStack entry is the    *)
(* activation of a handler waiting for the block it opened to end: kind    *)
(* names the handler and its stage, a1 and a2 are its saved addresses,     *)
(* flag its saved boolean and id the number of the loop.                   *)
(***************************************************************************)
Activation(kind, a1, a2, flag, id) ==
    [kind |-> kind, a1 |-> a1, a2 |-> a2, flag |-> flag, id |-> id]

LoopKinds == {"loopFrom", "loopOver", "loopWhile", "loopPost"}

BlockKinds == LoopKinds \cup {"begin", "if", "else"}

Push(p, activation) == [p EXCEPT !.callStack = Append(@, activation)]

Pop(p) == [p EXCEPT !.callStack = SubSeq(@, 1, Len(@) - 1)]

Top(p) == p.callStack[Len(p.callStack)]

ScopeBegin(p) ==
    EmitOpcode([p EXCEPT !.m_variableStackFrame =
                    [@ EXCEPT ![Len(@)] = Append(@, {})]],
               "ScopeBegin")

ScopeEnd(p) ==
    EmitOpcode(
        IF IsRootScope(p.m_variableStackFrame)
        THEN Error(p, "Attempted to pop root scope")
        ELSE [p EXCEPT !.m_variableStackFrame =
                 [@ EXCEPT ![Len(@)] = SubSeq(@, 1, Len(@) - 1)]],
        "ScopeEnd")

FrameBegin(p) ==
    [p EXCEPT !.m_variableStackFrame = Append(@, << {} >>)]

FrameEnd(p) ==
    IF IsRootFrame(p.m_variableStackFrame)
    THEN Error(p, "Attempted to pop root frame")
    ELSE [p EXCEPT !.m_variableStackFrame = SubSeq(@, 1, Len(@) - 1)]

\* ParseBlock up to its statement loop: the scope is opened and the calling
\* handler is suspended until a line ends the block.
ParseBlock(p, activation) ==
    IF p.m_error THEN p ELSE Push(ScopeBegin(p), activation)

(***************************************************************************)
(* Declarations.                                                           *)
(***************************************************************************)
PropertyNameCells(propertyName) ==
    LET text == NameText(propertyName.name)
        size == 2 + 8 + 4 + Len(propertyName.lib) + 4 + Len(text)
    IN  [i \in 1..size |-> Cell("prop", text, i)]

ParsePropertyDeclaration(p, scope, readOnly) ==
    IF p.m_error THEN p
    ELSE IF AtEnd(p)
    THEN Error(p, "Unexpected end of script when parsing property declaration")
    ELSE IF Cur(p).type # "NameValue"
    THEN Error(p, "Unexpected symbol type when parsing property declaration")
    ELSE IF \E i \in 1..Len(p.m_importList) : p.m_importList[i] = Cur(p).text
    THEN Error(p, "Property name cannot start with an import library name")
    ELSE
    LET libraryName == CheckLibraryName(p)
        propertyLibrary == IF libraryName # "" THEN libraryName
                           ELSE p.m_library
        a == IF libraryName # "" THEN NextSymbol(p) ELSE p
        b == Call("ParseMultiName", a, <<{"To"}>>)
        name == b.ret
        propertyName == PropertyName(scope, readOnly, propertyLibrary, name)
        c == WriteCells(
                 EmitOpcode(RegisterPropertyName(b, propertyLibrary,
                                                 propertyName),
                            "Property"),
                 PropertyNameCells(propertyName))
        d == EmitId(EmitOpcode(Call("ParseExpression", NextSymbol(c), <<FALSE>>),
                               "SetProp"),
                    propertyName.id)
    IN  IF ~CheckName(a) THEN Error(a, "Property name expected")
        ELSE IF PropertyNameExists(GetLibraryInternal(b, b.m_library), name)
        THEN Error(b, "Property is already defined")
        ELSE IF PropertyNameExists(GetLibraryInternal(b, propertyLibrary),
                                   name)
        THEN Error(b, "Error registering property name.  Possible duplicate.")
        ELSE IF Check(c, "To") THEN Expect(d, "NewLine")
        ELSE IF readOnly
        THEN Error(c, "Must assign property an initial value")
        ELSE Expect(c, "NewLine")

SignatureCells(signature) ==
    LET size == 2 + 4 + Len(signature.lib) + 1 + 4 * Len(signature.parts)
    IN  [i \in 1..size |-> Cell("sig", "", i)]

\* The loop over the symbols of a signature.  st holds the locals
\* parsedParameter, parsedNonKeywordName, parsedNameCount,
\* optionalNameCount and signatureParts; p.ret is FALSE when the loop
\* returned an invalid signature.
RECURSIVE ParseAlternativeNames(_, _)
ParseAlternativeNames(p, names) ==
    IF ~Check(p, "ForwardSlash") THEN Return(p, names)
    ELSE LET a == NextSymbol(p)
             b == ParseFunctionNamePart(a)
         IN  IF ~CheckFunctionNamePart(a)
             THEN Return(Error(a, "Invalid name in function signature"), <<>>)
             ELSE IF \E n \in 1..Len(names) : names[n] = b.ret
             THEN Return(Error(b, "Duplicate alternative name in function signature"),
                         <<>>)
             ELSE ParseAlternativeNames(b, Append(names, b.ret))

RECURSIVE ParseSignatureParts(_, _)
ParseSignatureParts(p, st) ==
    IF Check(p, "NewLine") THEN Return(p, [st EXCEPT !.ok = TRUE])
    ELSE IF Check(p, "CurlyOpen")
    THEN LET a == NextSymbol(p)
             b == IF CheckValueType(a) THEN ParseValueType(a)
                  ELSE Return(a, "Null")
             valueType == b.ret
             c == Call("ParseMultiName", b, <<{"CurlyClose"}>>)
             d == Expect(c, "CurlyClose")
         IN  IF st.parsedParameter
             THEN Return(Error(a, "Functions cannot have multiple variables without a name separating them"),
                         st)
             ELSE IF ~CheckName(b)
             THEN Return(Error(b, "No variable name or class identifier found in function signature"),
                         st)
             ELSE ParseSignatureParts(d,
                      [st EXCEPT !.parsedParameter = TRUE,
                                 !.parts = Append(@,
                                     ParameterPart(<<c.ret>>, valueType))])
    ELSE LET optional == Check(p, "ParenOpen")
             a == Accept(p, "ParenOpen")
             nonKeyword == ~IsKeyword(Cur(a).type)
             b == ParseFunctionNamePart(a)
             c == ParseAlternativeNames(b, <<b.ret>>)
             d == IF optional THEN Expect(c, "ParenClose") ELSE c
         IN  IF ~CheckFunctionNamePart(a)
             THEN Return(Error(a, "Invalid name in function signature"), st)
             ELSE IF c.m_error THEN Return(c, st)
             ELSE IF d.m_error THEN Return(d, st)
             ELSE ParseSignatureParts(d,
                      [st EXCEPT
                          !.parsedParameter = FALSE,
                          !.parsedNonKeywordName = @ \/ nonKeyword,
                          !.parsedNameCount = @ + 1,
                          !.optionalNameCount = @ + (IF optional THEN 1 ELSE 0),
                          !.parts = Append(@, NamePart(c.ret, optional))])

ParseFunctionSignature(p, scope) ==
    LET returnParameter == Check(p, "Return")
        a == Accept(p, "Return")
        b == ParseSignatureParts(a,
                 [ok |-> FALSE, parsedParameter |-> FALSE,
                  parsedNonKeywordName |-> FALSE, parsedNameCount |-> 0,
                  optionalNameCount |-> 0, parts |-> <<>>])
        st == b.ret
        c == Expect(b, "NewLine")
        signature == FunctionSignature(scope, returnParameter, p.m_library,
                                       st.parts)
    IN  IF Check(a, "NewLine")
        THEN Return(Error(a, "Empty function signature"), NoSignature)
        ELSE IF ~st.ok THEN Return(b, NoSignature)
        ELSE IF c.m_error THEN Return(c, NoSignature)
        ELSE IF /\ ~st.parsedNonKeywordName
                /\ st.parsedNameCount = 1 /\ Len(st.parts) = 1
        THEN Return(Error(c, "Function signature cannot match keyword"),
                    NoSignature)
        ELSE IF st.parsedNameCount = st.optionalNameCount
        THEN Return(Error(c, "Function signature must have at least one non-optional name part"),
                    NoSignature)
        ELSE Return(WriteCells(EmitOpcode(c, "Function"),
                               SignatureCells(signature)),
                    signature)

\* The parameters of a signature, last first, bound as indexed stack locals.
RECURSIVE EmitParameters(_, _, _)
EmitParameters(p, params, stackIndex) ==
    IF Len(params) = 0 THEN p
    ELSE LET last == params[Len(params)]
         IN  EmitParameters(
                 EmitValueType(
                     EmitIndex(EmitName(EmitOpcode(
                                   VariableAssign(p, last.names[1]),
                                   "SetIndex"),
                               last.names[1]),
                               stackIndex),
                     last.valueType),
                 SubSeq(params, 1, Len(params) - 1), stackIndex - 1)

GetParameters(signature) ==
    SelectSeq(signature.parts, LAMBDA part : part.partType = "Parameter")

RegisterLocalFunction(p, signature) ==
    [p EXCEPT !.m_localFunctions = Append(@, signature)]

RegisterLibraryFunction(p, signature) ==
    LET library == GetLibraryInternal(p, p.m_library)
    IN  [p EXCEPT !.m_libraryMap =
            [n \in DOMAIN @ \cup {p.m_library} |->
                IF n = p.m_library
                THEN [library EXCEPT !.fns = Append(@, signature)]
                ELSE @[n]]]

\* ParseFunctionDefinition up to the loop over the statements of the body.
ParseFunctionDefinition(p, scope) ==
    IF ~IsRootFrame(p.m_variableStackFrame)
    THEN Error(p, "Can't define a function inside another class or function")
    ELSE IF ~IsRootScope(p.m_variableStackFrame)
    THEN Error(p, "Can't define a function inside a scoped execution block")
    ELSE
    LET a == Call("ParseFunctionSignature", p, <<scope>>)
        signature == a.ret
        b == IF signature.visibility = "Local"
             THEN RegisterLocalFunction(a, signature)
             ELSE RegisterLibraryFunction(a, signature)
        c == EmitOpcode(b, "Jump")
        jumpBackfillAddress == Tell(c)
        d == EmitParameters(FrameBegin(EmitAddressPlaceholder(c)),
                            GetParameters(signature), -1)
    IN  IF ~signature.valid THEN Error(a, "Invalid function definition")
        ELSE IF /\ signature.visibility = "Local"
                /\ SignatureExists(a.m_localFunctions, signature)
        THEN Error(a, "Function already defined in script")
        ELSE IF /\ signature.visibility # "Local"
                /\ SignatureExists(
                       GetLibraryInternal(a, a.m_library).fns, signature)
        THEN Error(a, "Function already defined in library")
        ELSE Push([d EXCEPT !.m_requireReturnValue = signature.returns],
                  Activation("function", jumpBackfillAddress, 0, FALSE, 0))

(***************************************************************************)
(* Statements.                                                             *)
(***************************************************************************)
ParseScope(p) ==
    IF p.m_error \/ AtEnd(p) THEN Return(p, "Local")
    ELSE IF Cur(p).type = "Private" THEN Return(NextSymbol(p), "Private")
    ELSE IF Cur(p).type = "Public" THEN Return(NextSymbol(p), "Public")
    ELSE Return(p, "Local")

ParseErase(p) ==
    IF Call("CheckProperty", p, <<p.cur>>).ok
    THEN LET a == Call("ParsePropertyName", p, <<>>)
             propName == a.ret
             b == Expect(Expect(Call("ParseSubexpression", NextSymbol(a), <<FALSE>>),
                                "SquareClose"),
                         "NewLine")
         IN  IF propName.readOnly
             THEN Error(a, "Can't delete a readonly property")
             ELSE IF Check(a, "SquareOpen")
             THEN EmitId(EmitOpcode(b, "EraseVarElem"), propName.id)
             ELSE EmitId(EmitOpcode(Expect(a, "NewLine"), "EraseProp"),
                         propName.id)
    ELSE IF Call("CheckVariable", p, <<p.cur>>).ok
    THEN LET a == Call("ParseVariable", p, <<>>)
             varName == a.ret
             b == Expect(Expect(Call("ParseSubexpression", NextSymbol(a), <<FALSE>>),
                                "SquareClose"),
                         "NewLine")
         IN  IF Check(a, "SquareOpen")
             THEN EmitName(EmitOpcode(b, "EraseVarElem"), varName)
             ELSE EmitName(EmitOpcode(Expect(a, "NewLine"), "EraseVar"),
                           varName)
    ELSE Error(p, "Valid property or variable name expected after delete keyword")

ParseIncDec(p) ==
    LET increment == Check(p, "Increment")
        a == IF increment THEN NextSymbol(p) ELSE Expect(p, "Decrement")
        isProperty == Call("CheckProperty", a, <<a.cur>>).ok
        isVariable == Call("CheckVariable", a, <<a.cur>>).ok
        b == IF isProperty THEN Call("ParsePropertyName", a, <<>>) ELSE Call("ParseVariable", a, <<>>)
        c == IF isProperty
             THEN EmitId(EmitOpcode(b, "PushProp"), b.ret.id)
             ELSE EmitName(EmitOpcode(b, "PushVar"), b.ret)
        d == IF Check(c, "By") THEN Call("ParseExpression", NextSymbol(c), <<FALSE>>)
             ELSE EmitValue(EmitOpcode(c, "PushVal"), IntegerValue(1))
        e == EmitOpcode(d, IF increment THEN "Increment" ELSE "Decrement")
        f == IF isProperty /\ b.ret.name # <<>>
             THEN EmitId(EmitOpcode(e, "SetProp"), b.ret.id)
             ELSE EmitName(EmitOpcode(e, "SetVar"),
                           IF isProperty THEN <<>> ELSE b.ret)
    IN  IF isProperty /\ b.ret.readOnly
        THEN Error(b, "Can't increment or decrement a readonly property")
        ELSE IF ~isProperty /\ ~isVariable
        THEN Error(a, "Valid property or variable name expected")
        ELSE Expect(f, "NewLine")

\* return, after the keyword.
ParseReturn(p) ==
    IF ~Check(p, "NewLine")
    THEN LET a == IF ~p.m_requireReturnValue
                  THEN Error(p, "Unexpected return value")
                  ELSE [p EXCEPT !.m_returnedValue = TRUE]
         IN  Accept(EmitOpcode(Call("ParseExpression", a, <<FALSE>>), "ReturnValue"),
                    "NewLine")
    ELSE LET a == IF p.m_requireReturnValue
                  THEN Error(p, "Required return value not found")
                  ELSE p
         IN  Accept(EmitOpcode(a, "Return"), "NewLine")

\* The loop the statement being parsed lies in: the innermost loop handler
\* on the call stack, 0 when there is none.
EnclosingLoop(p) ==
    LET loops == {i \in 1..Len(p.callStack) : p.callStack[i].kind \in LoopKinds}
    IN  IF loops = {} THEN 0 ELSE p.callStack[SetMax(loops)].id

\* break, after the keyword.  breaks records where each break's jump
\* address was written and the loop around it.
ParseBreak(p) ==
    LET a == EmitOpcode(Expect(p, "NewLine"), "Jump")
        address == Tell(a)
    IN  [EmitAddressPlaceholder(a) EXCEPT
            !.m_breakAddress = address,
            !.breaks = Append(@, [address |-> address,
                                  loop |-> EnclosingLoop(p)])]

\* wait whose closing Jump goes to the conditional jump, not to the
\* expression before it.
ParseWaitNoJumpBack(p) ==
    IF Check(p, "NewLine") THEN EmitOpcode(NextSymbol(p), "Wait")
    ELSE IF Check(p, "Until") \/ Check(p, "While")
    THEN LET jumpTrue == Check(p, "Until")
             a == Call("ParseExpression", NextSymbol(p), <<FALSE>>)
             b == Expect(a, "NewLine")
             c == EmitOpcode(b, IF jumpTrue THEN "JumpTrue" ELSE "JumpFalse")
             addressPlaceholder == Tell(c)
             d == EmitAddress(
                      EmitOpcode(EmitOpcode(EmitAddressPlaceholder(c), "Wait"),
                                 "Jump"),
                      Tell(b))
         IN  IF b.m_error THEN b
             ELSE EmitAddressBackfill(d, addressPlaceholder)
    ELSE Error(p, "Unexpected symbol after wait")

\* wait, after the keyword.
ParseWait(p) ==
    IF Check(p, "NewLine") THEN EmitOpcode(NextSymbol(p), "Wait")
    ELSE IF Check(p, "Until") \/ Check(p, "While")
    THEN LET expressionAddress == Tell(p)
             jumpTrue == Check(p, "Until")
             a == Call("ParseExpression", NextSymbol(p), <<FALSE>>)
             b == Expect(a, "NewLine")
             c == EmitOpcode(b, IF jumpTrue THEN "JumpTrue" ELSE "JumpFalse")
             addressPlaceholder == Tell(c)
             d == EmitAddress(
                      EmitOpcode(EmitOpcode(EmitAddressPlaceholder(c), "Wait"),
                                 "Jump"),
                      expressionAddress)
         IN  IF b.m_error THEN b
             ELSE EmitAddressBackfill(d, addressPlaceholder)
    ELSE Error(p, "Unexpected symbol after wait")

\* external, after the keyword.
ParseExternal(p) ==
    LET propExists == Call("CheckProperty", p, <<p.cur>>).ok
        a == Call("ParseMultiName", p, <<{}>>)
        name == a.ret
        b == IF ~IsRootFrame(a.m_variableStackFrame)
             THEN Error(a, "External variable can't be declared in a function")
             ELSE IF ~IsRootScope(a.m_variableStackFrame)
             THEN Error(a, "External variable must be declared at the root scope")
             ELSE IF propExists
             THEN Error(a, "External variable is already a property name")
             ELSE IF VariableExists(a, name)
             THEN Error(a, "Variable already exists")
             ELSE VariableAssign(a, name)
    IN  Expect(b, "NewLine")

\* ParseIfElse, after the keyword if, up to the if block.
ParseIfElse(p) ==
    LET a == EmitOpcode(Expect(Call("ParseExpression", p, <<FALSE>>), "NewLine"),
                        "JumpFalse")
        ifJumpAddress == Tell(a)
    IN  ParseBlock(EmitAddressPlaceholder(a),
                   Activation("if", ifJumpAddress, 0, FALSE, 0))

NewLoop(p) == [p EXCEPT !.loopEnd = Append(@, 0)]

\* ParseLoop, after the keyword loop, up to the block of the loop.
ParseLoop(p) ==
    LET n == IF CheckName(p)
             THEN Call("ParseMultiName", p, <<{"From", "Over", "Until", "While"}>>)
             ELSE Return(p, <<>>)
        name == n.ret
        id == Len(p.loopEnd) + 1
        bind(q) == IF name # <<>>
                   THEN EmitName(EmitOpcode(VariableAssign(q, name), "SetVar"),
                                 name)
                   ELSE q
    IN  IF Check(n, "From")
        THEN LET a == bind(Call("ParseExpression", ScopeBegin(NextSymbol(n)), <<FALSE>>))
                 b == Call("ParseExpression", Expect(a, "To"), <<FALSE>>)
                 c == IF Check(b, "By")
                      THEN Call("ParseExpression", NextSymbol(b), <<FALSE>>)
                      ELSE EmitValue(EmitOpcode(b, "PushVal"), NullValue)
                 d == Expect(c, "NewLine")
             IN  ParseBlock(NewLoop(d),
                            Activation("loopFrom", Tell(d), 0, FALSE, id))
        ELSE IF Check(n, "Over")
        THEN LET a == Call("ParseExpression", ScopeBegin(NextSymbol(n)), <<FALSE>>)
                 b == Expect(a, "NewLine")
                 c == EmitOpcode(EmitOpcode(b, "PushTop"), "JumpFalse")
                 emptyLoopJumpAddress == Tell(c)
                 d == bind(EmitOpcode(EmitAddressPlaceholder(c), "PushItr"))
             IN  IF b.m_error THEN b
                 ELSE ParseBlock(NewLoop(d),
                                 Activation("loopOver", Tell(d),
                                            emptyLoopJumpAddress, FALSE, id))
        ELSE IF Check(n, "Until") \/ Check(n, "While")
        THEN LET loopBeginAddress == Tell(n)
                 jumpTrue == Check(n, "Until")
                 a == Call("ParseExpression", NextSymbol(n), <<FALSE>>)
                 b == Expect(a, "NewLine")
                 c == EmitOpcode(b, IF jumpTrue THEN "JumpTrue"
                                    ELSE "JumpFalse")
                 loopJumpAddress == Tell(c)
             IN  IF b.m_error THEN b
                 ELSE ParseBlock(NewLoop(EmitAddressPlaceholder(c)),
                                 Activation("loopWhile", loopBeginAddress,
                                            loopJumpAddress, FALSE, id))
        ELSE IF Check(n, "NewLine")
        THEN ParseBlock(NewLoop(NextSymbol(n)),
                        Activation("loopPost", Tell(n), 0, FALSE, id))
        ELSE Error(n, "Unknown syntax after loop keyword")

\* The assignment forms of ParseStatement, at the name after set.
ParseAssignment(p) ==
    IF Call("CheckProperty", p, <<p.cur>>).ok
    THEN LET a == Call("ParsePropertyName", p, <<>>)
             propertyName == a.ret
             b == Call("ParseSubscript", a, <<>>)
             c == Expect(Call("ParseExpression", Expect(b, "To"), <<FALSE>>), "NewLine")
         IN  IF propertyName.readOnly
             THEN Error(a, "Can't change readonly property")
             ELSE EmitId(EmitOpcode(c, IF b.ret THEN "SetPropKeyVal"
                                       ELSE "SetProp"),
                         propertyName.id)
    ELSE LET a == Call("ParseMultiName", p, <<{"To", "SquareOpen"}>>)
             name == a.ret
             b == Call("ParseSubscript", a, <<>>)
             c == Expect(Call("ParseExpression", Expect(b, "To"), <<FALSE>>), "NewLine")
         IN  VariableAssign(
                 EmitName(EmitOpcode(c, IF b.ret THEN "SetVarKey"
                                        ELSE "SetVar"),
                          name),
                 name)

\* ParseStatement on the line p.line.  A statement that opens a block
\* returns with its handler on the call stack.  calls records what
\* CheckFunctionCall returned for the line.
ParseStatement(p) ==
    IF p.m_error THEN p
    ELSE
    LET signature == Call("CheckFunctionCall", p, <<>>)
        q == [p EXCEPT !.calls = Append(@, [line |-> p.line,
                                            signature |-> signature])]
        call == Call("ParseFunctionCall", q, <<signature>>)
        set == Check(q, "Set")
        a == ParseScope(Accept(q, "Set"))
        scope == a.ret
        readOnly == Check(a, "Readonly")
        b == Accept(a, "Readonly")
    IN  IF signature.valid
        THEN Expect(IF signature.returns THEN EmitOpcode(call, "Pop")
                    ELSE call,
                    "NewLine")
        ELSE IF readOnly /\ scope = "Local"
        THEN Error(b, "The 'readonly' keyword must follow a private or public keyword")
        ELSE IF Check(b, "Function")
        THEN Call("ParseFunctionDefinition", NextSymbol(b), <<scope>>)
        ELSE IF set /\ CheckName(b)
        THEN IF Cur(b).text = b.m_library
             THEN Error(b, "Illegal use of library name in identifier")
             ELSE IF scope # "Local"
             THEN Call("ParsePropertyDeclaration", b, <<scope, readOnly>>)
             ELSE Call("ParseAssignment", b, <<>>)
        ELSE IF scope = "Local"
        THEN IF Check(b, "Begin")
             THEN ParseBlock(Expect(NextSymbol(b), "NewLine"),
                             Activation("begin", 0, 0, FALSE, 0))
             ELSE IF Check(b, "If") THEN Call("ParseIfElse", NextSymbol(b), <<>>)
             ELSE IF Check(b, "Loop") THEN Call("ParseLoop", NextSymbol(b), <<>>)
             ELSE IF Check(b, "Erase") THEN Call("ParseErase", NextSymbol(b), <<>>)
             ELSE IF Check(b, "Increment") \/ Check(b, "Decrement")
             THEN Call("ParseIncDec", b, <<>>)
             ELSE IF Check(b, "Return") THEN Call("ParseReturn", NextSymbol(b), <<>>)
             ELSE IF Check(b, "Break") THEN Call("ParseBreak", NextSymbol(b), <<>>)
             ELSE IF Check(b, "Wait") THEN Call("ParseWait", NextSymbol(b), <<>>)
             ELSE IF Check(b, "External") THEN Call("ParseExternal", NextSymbol(b), <<>>)
             ELSE Error(b, "Unknown symbol in statement")
        ELSE Error(b, "Invalid symbol after scope specifier")

(***************************************************************************)
(* The ends of blocks: the handler on top of the call stack resumes after  *)
(* its ParseBlock, on a line that starts with end, else, until or while.   *)
(***************************************************************************)
\* The end of ParseLoop: a pending break address is backfilled and cleared.
\* loopEnd records the offset one past the loop.
BreakBackfill(p, id) ==
    LET a == [p EXCEPT !.loopEnd = [@ EXCEPT ![id] = Tell(p)]]
    IN  IF a.m_breakAddress # 0
        THEN [EmitAddressBackfill(a, a.m_breakAddress)
                EXCEPT !.m_breakAddress = 0]
        ELSE a

\* The return of ParseIfElse, and of every ParseIfElse that called it on
\* else if.
RECURSIVE ReturnFromIfElse(_, _)
ReturnFromIfElse(p, returnedValueInIfBlock) ==
    LET a == IF ~returnedValueInIfBlock
             THEN [p EXCEPT !.m_returnedValue = FALSE]
             ELSE p
    IN  IF a.callStack # <<>> /\ Top(a).kind = "elseif"
        THEN ReturnFromIfElse(EmitAddressBackfill(Pop(a), Top(a).a1),
                              Top(a).flag)
        ELSE a

\* ParseIfElse after its if block.
ResumeIf(p, ifJumpAddress) ==
    LET returnedValueInIfBlock == p.m_returnedValue
        a == [p EXCEPT !.m_returnedValue = FALSE]
        b == EmitOpcode(NextSymbol(a), "Jump")
        elseJumpAddress == Tell(b)
        c == EmitAddressBackfill(EmitAddressPlaceholder(b), ifJumpAddress)
    IN  IF Check(a, "Else")
        THEN IF Check(c, "NewLine")
             THEN ParseBlock(NextSymbol(c),
                             Activation("else", elseJumpAddress, 0,
                                        returnedValueInIfBlock, 0))
             ELSE IF Check(c, "If")
             THEN Call("ParseIfElse", Push(NextSymbol(c),
                           Activation("elseif", elseJumpAddress, 0,
                                      returnedValueInIfBlock, 0)), <<>>)
             ELSE Error(c, "Unexpected symbol after else")
        ELSE IF Check(a, "End")
        THEN ReturnFromIfElse(
                 EmitAddressBackfill(Expect(NextSymbol(a), "NewLine"),
                                     ifJumpAddress),
                 returnedValueInIfBlock)
        ELSE Error(a, "Missing block termination after if")

\* ParseIfElse after its else block.
ResumeElse(p, elseJumpAddress, returnedValueInIfBlock) ==
    LET a == Expect(Expect(p, "End"), "NewLine")
        b == IF a.m_requireReturnValue /\ ~returnedValueInIfBlock
             THEN [a EXCEPT !.m_returnedValue = FALSE]
             ELSE a
    IN  ReturnFromIfElse(EmitAddressBackfill(b, elseJumpAddress),
                         returnedValueInIfBlock)

\* ParseLoop whose post-test jump is taken on the opposite outcome.
ResumeLoopExchanged(p, top) ==
    LET a == Expect(Expect(p, "End"), "NewLine")
        jumpTrue == Check(p, "While")
        w == Expect(Call("ParseExpression", IF jumpTrue THEN NextSymbol(p)
                        ELSE Expect(p, "Until"), <<FALSE>>),
                    "NewLine")
    IN  IF top.kind = "loopFrom"
        THEN BreakBackfill(
                 ScopeEnd(EmitAddress(
                     EmitOpcode(EmitOpcode(a, "LoopCount"), "JumpTrue"),
                     top.a1)),
                 top.id)
        ELSE IF top.kind = "loopOver"
        THEN BreakBackfill(
                 ScopeEnd(EmitAddressBackfill(
                     EmitAddress(
                         EmitOpcode(EmitOpcode(a, "LoopOver"), "JumpFalse"),
                         top.a1),
                     top.a2)),
                 top.id)
        ELSE IF top.kind = "loopWhile"
        THEN BreakBackfill(
                 EmitAddressBackfill(
                     EmitAddress(EmitOpcode(a, "Jump"), top.a1),
                     top.a2),
                 top.id)
        ELSE BreakBackfill(
                 EmitAddress(
                     EmitOpcode(w, IF jumpTrue THEN "JumpFalse"
                                   ELSE "JumpTrue"),
                     top.a1),
                 top.id)

\* ParseLoop after the block of the loop.
ResumeLoop(p, top) ==
    LET a == Expect(Expect(p, "End"), "NewLine")
        jumpTrue == Check(p, "While")
        w == Expect(Call("ParseExpression", IF jumpTrue THEN NextSymbol(p)
                        ELSE Expect(p, "Until"), <<FALSE>>),
                    "NewLine")
    IN  IF top.kind = "loopFrom"
        THEN BreakBackfill(
                 ScopeEnd(EmitAddress(
                     EmitOpcode(EmitOpcode(a, "LoopCount"), "JumpTrue"),
                     top.a1)),
                 top.id)
        ELSE IF top.kind = "loopOver"
        THEN BreakBackfill(
                 ScopeEnd(EmitAddressBackfill(
                     EmitAddress(
                         EmitOpcode(EmitOpcode(a, "LoopOver"), "JumpFalse"),
                         top.a1),
                     top.a2)),
                 top.id)
        ELSE IF top.kind = "loopWhile"
        THEN BreakBackfill(
                 EmitAddressBackfill(
                     EmitAddress(EmitOpcode(a, "Jump"), top.a1),
                     top.a2),
                 top.id)
        ELSE BreakBackfill(
                 EmitAddress(
                     EmitOpcode(w, IF jumpTrue THEN "JumpTrue"
                                   ELSE "JumpFalse"),
                     top.a1),
                 top.id)

\* The end of ParseBlock and the rest of the handler that called it.
ResumeBlock(p) ==
    LET top == Top(p)
        a == ScopeEnd(Pop(p))
    IN  IF top.kind = "begin" THEN Expect(Expect(a, "End"), "NewLine")
        ELSE IF top.kind = "if" THEN Call("ResumeIf", a, <<top.a1>>)
        ELSE IF top.kind = "else" THEN Call("ResumeElse", a, <<top.a1, top.flag>>)
        ELSE Call("ResumeLoop", a, <<top>>)

\* ParseFunctionDefinition after the statements of the body.
ResumeFunction(p) ==
    LET top == Top(p)
        a == Expect(Expect(Pop(p), "End"), "NewLine")
        b == IF a.m_requireReturnValue /\ ~a.m_returnedValue
             THEN Error(a, "Required return value not found")
             ELSE a
    IN  FrameEnd(EmitAddressBackfill(EmitOpcode(b, "Return"), top.a1))

\* ParseScript that returns without the closing Exit.
ParseScriptEndNoExit(p) ==
    LET a == IF p.callStack # <<>>
             THEN Error(p, "Unknown symbol in statement")
             ELSE p
    IN  IF a.m_breakAddress # 0 THEN Error(a, "Illegal break") ELSE a

\* The end of ParseScript.  Reaching the end of the symbols inside a block
\* or a function body makes ParseStatement fail on the missing symbol.
ParseScriptEnd(p) ==
    LET a == IF p.callStack # <<>>
             THEN Error(p, "Unknown symbol in statement")
             ELSE p
        b == IF a.m_breakAddress # 0 THEN Error(a, "Illegal break") ELSE a
    IN  EmitOpcode(b, "Exit")

(***************************************************************************)
(* The parser's member functions by name.                                  *)
(***************************************************************************)
Call(name, p, args) ==
    CASE name = "CheckVariable" -> CheckVariable(p, args[1])
      [] name = "CheckPropertyName" -> CheckPropertyName(p, args[1], args[2])
      [] name = "CheckProperty" -> CheckProperty(p, args[1])
      [] name = "FindFunctionSignature" -> FindFunctionSignature(p, args[1], args[2])
      [] name = "CheckFunctionCall" -> CheckFunctionCall(p)
      [] name = "ParseMultiName" -> ParseMultiName(p, args[1])
      [] name = "ParseVariable" -> ParseVariable(p)
      [] name = "ParsePropertyNameParts" -> ParsePropertyNameParts(p, args[1])
      [] name = "ParsePropertyName" -> ParsePropertyName(p)
      [] name = "ParseSubscript" -> ParseSubscript(p)
      [] name = "ParseFunctionCall" -> ParseFunctionCall(p, args[1])
      [] name = "ParseSubexpressionOperand" -> ParseSubexpressionOperand(p, args[1])
      [] name = "ParseSubexpressionOperation" -> ParseSubexpressionOperation(p, args[1])
      [] name = "ParseSubexpression" -> ParseSubexpression(p, args[1])
      [] name = "ParseKeyValuePairs" -> ParseKeyValuePairs(p, args[1])
      [] name = "ParseListItems" -> ParseListItems(p, args[1])
      [] name = "ParseExpression" -> ParseExpression(p, args[1])
      [] name = "ParsePropertyDeclaration" -> ParsePropertyDeclaration(p, args[1], args[2])
      [] name = "ParseFunctionSignature" -> ParseFunctionSignature(p, args[1])
      [] name = "ParseFunctionDefinition" -> ParseFunctionDefinition(p, args[1])
      [] name = "ParseErase" -> ParseErase(p)
      [] name = "ParseIncDec" -> ParseIncDec(p)
      [] name = "ParseReturn" -> ParseReturn(p)
      [] name = "ParseBreak" -> ParseBreak(p)
      [] name = "ParseWait" -> ParseWait(p)
      [] name = "ParseExternal" -> ParseExternal(p)
      [] name = "ParseIfElse" -> ParseIfElse(p)
      [] name = "ParseLoop" -> ParseLoop(p)
      [] name = "ParseAssignment" -> ParseAssignment(p)
      [] name = "ParseStatement" -> ParseStatement(p)
      [] name = "ResumeIf" -> ResumeIf(p, args[1])
      [] name = "ResumeElse" -> ResumeElse(p, args[1], args[2])
      [] name = "ResumeLoop" -> ResumeLoop(p, args[1])
      [] name = "ResumeBlock" -> ResumeBlock(p)
      [] name = "ResumeFunction" -> ResumeFunction(p)

(***************************************************************************)
(* Reading bytecode back, as Runtime::LogBytecode does: an opcode byte,    *)
(* then the operand the opcode's layout fixes.                             *)
(***************************************************************************)
IdOpcodes ==
    {"CallFunc", "EraseProp", "ErasePropElem", "PushProp", "PushPropKeyVal",
     "SetProp", "SetPropKeyVal"}

StringOpcodes ==
    {"EraseVar", "EraseVarElem", "Library", "PushVar", "PushVarKey", "SetVar",
     "SetVarKey"}

CountOpcodes ==
    {"Jump", "JumpFalse", "JumpTrue", "PopCount", "PushColl", "PushList"}

\* The little-endian number in the w bytes at offset at; -1 when the buffer
\* ends before.
ReadNumber(bytecode, at, w) ==
    IF at + w > Len(bytecode) THEN -1
    ELSE LET RECURSIVE sum(_)
             sum(i) == IF i = w THEN 0
                       ELSE bytecode[at + 1 + i].b + 256 * sum(i + 1)
         IN  sum(0)

\* The number of cells of kind k from offset at on.
RECURSIVE RunLength(_, _, _)
RunLength(bytecode, at, k) ==
    IF at + 1 > Len(bytecode) THEN 0
    ELSE IF bytecode[at + 1].k # k THEN 0
    ELSE 1 + RunLength(bytecode, at + 1, k)

\* The size of the operand that the reader consumes after the opcode at
\* offset at; -1 when the read runs past the end of the buffer.
OperandSize(bytecode, at, opcode) ==
    LET from == at + 1
        length == ReadNumber(bytecode, from, 4)
        tag == IF from + 1 <= Len(bytecode) THEN bytecode[from + 1].op
               ELSE ""
    IN  IF opcode \in IdOpcodes THEN 8
        ELSE IF opcode = "Cast" THEN 1
        ELSE IF opcode \in StringOpcodes
        THEN IF length < 0 THEN -1 ELSE 4 + length
        ELSE IF opcode = "Function" THEN RunLength(bytecode, from, "sig")
        ELSE IF opcode = "Property" THEN RunLength(bytecode, from, "prop")
        ELSE IF opcode \in CountOpcodes THEN 4
        ELSE IF opcode = "PushVal"
        THEN IF tag = "Integer" THEN 9
             ELSE IF tag = "ValType" THEN 2
             ELSE 1
        ELSE IF opcode = "SetIndex"
        THEN IF length < 0 THEN -1 ELSE 4 + length + 4 + 1
        ELSE 0

\* The operand as a value: the id, the count or address, the integer, or
\* the text of a string.
OperandValue(bytecode, at, opcode) ==
    LET from == at + 1
    IN  IF opcode \in IdOpcodes THEN ReadNumber(bytecode, from, 8)
        ELSE IF opcode \in CountOpcodes THEN ReadNumber(bytecode, from, 4)
        ELSE IF opcode = "PushVal"
        THEN IF bytecode[from + 1].op = "Integer"
             THEN ReadNumber(bytecode, from + 1, 8)
             ELSE 0
        ELSE 0

OperandText(bytecode, at, opcode) ==
    LET from == at + 1
    IN  IF /\ opcode \in StringOpcodes \cup {"SetIndex"}
           /\ from + 5 <= Len(bytecode)
           /\ bytecode[from + 5].k = "chr"
        THEN bytecode[from + 5].op
        ELSE ""

\* The instructions read from offset at on.  The reading stops, with
\* aligned false, at a byte that was not written as an opcode or at an
\* operand that runs past the end of the buffer.
RECURSIVE ReadInstructions(_, _, _)
ReadInstructions(bytecode, at, instructions) ==
    IF at >= Len(bytecode)
    THEN [aligned |-> at = Len(bytecode), instructions |-> instructions]
    ELSE LET cell == bytecode[at + 1]
             size == OperandSize(bytecode, at, cell.op)
         IN  IF cell.k # "op"
             THEN [aligned |-> FALSE, instructions |-> instructions]
             ELSE IF size < 0 \/ at + 1 + size > Len(bytecode)
             THEN [aligned |-> FALSE, instructions |-> instructions]
             ELSE ReadInstructions(
                      bytecode, at + 1 + size,
                      Append(instructions,
                             [opcode |-> cell.op, at |-> at,
                              value |-> OperandValue(bytecode, at, cell.op),
                              text |-> OperandText(bytecode, at, cell.op)]))

LogBytecode(bytecode) == ReadInstructions(bytecode, HeaderSize, <<>>)

(***************************************************************************)
(* State.  The fields of the Parser under compilation, the library map of  *)
(* the Runtime, and what the host call returned.                           *)
(***************************************************************************)
VARIABLES
    pc,                    \* idle, imports, statements or done
    api,                   \* the Runtime method the host called
    lexerOk,               \* what Lexer::Execute returned
    returned,              \* what the method returned: null, bytecode, script
    scriptCount,           \* Script objects created
    executeCount,          \* calls of Script::Execute
    compiled,              \* what the earlier calls of Compile returned
    rt,                    \* the Runtime's mutexes and maps, and its callers
    m_symbolList,          \* the lines consumed so far
    m_error,
    errorText,             \* the message of the first error
    m_breakAddress,
    m_bytecode,
    m_requireReturnValue,
    m_returnedValue,
    m_variableStackFrame,
    m_library,
    m_importList,
    m_localFunctions,
    m_libraryMap,
    callStack,
    breaks,
    loopEnd,
    resolved,
    leftover,
    calls,                 \* what CheckFunctionCall returned, per statement
    vm,                    \* the Script made of the bytecode, and the
                           \* property map of the Runtime
    scan,                  \* a symbol list under CheckVariable, ParseVariable
    heap                   \* the BlockHeap of the allocator

hostVars ==
    <<api, lexerOk, returned, scriptCount, executeCount, compiled, vm, rt,
      scan, heap>>

parserVars ==
    <<m_error, errorText, m_breakAddress, m_bytecode, m_requireReturnValue,
      m_returnedValue, m_variableStackFrame, m_library, m_importList,
      m_localFunctions, m_libraryMap, callStack, breaks, loopEnd, resolved,
      leftover, calls>>

vars == <<pc, hostVars, m_symbolList, parserVars>>

\* The parser at the start of a line.
ParserAt(line) ==
    [line |-> line, cur |-> 1, ret |-> FALSE, opcodeStack |-> <<>>,
     m_error |-> m_error, errorText |-> errorText,
     m_breakAddress |-> m_breakAddress, m_bytecode |-> m_bytecode,
     m_requireReturnValue |-> m_requireReturnValue,
     m_returnedValue |-> m_returnedValue,
     m_variableStackFrame |-> m_variableStackFrame,
     m_library |-> m_library, m_importList |-> m_importList,
     m_localFunctions |-> m_localFunctions, m_libraryMap |-> m_libraryMap,
     callStack |-> callStack, breaks |-> breaks, loopEnd |-> loopEnd,
     resolved |-> resolved, leftover |-> leftover, calls |-> calls]

\* The parser after a handler ran.  Once the error flag is set the pending
\* handlers return without parsing further, so the call stack is dropped.
Commit(p) ==
    /\ m_error' = p.m_error
    /\ errorText' = p.errorText
    /\ m_breakAddress' = p.m_breakAddress
    /\ m_bytecode' = p.m_bytecode
    /\ m_requireReturnValue' = p.m_requireReturnValue
    /\ m_returnedValue' = p.m_returnedValue
    /\ m_variableStackFrame' = p.m_variableStackFrame
    /\ m_library' = p.m_library
    /\ m_importList' = p.m_importList
    /\ m_localFunctions' = p.m_localFunctions
    /\ m_libraryMap' = p.m_libraryMap
    /\ callStack' = IF p.m_error THEN <<>> ELSE p.callStack
    /\ breaks' = p.breaks
    /\ loopEnd' = p.loopEnd
    /\ resolved' = p.resolved
    /\ leftover' = p.leftover
    /\ calls' = p.calls

\* Statements nest at most MaxDepth handlers deep.
CommitWithin(p) == Len(p.callStack) <= MaxDepth /\ Commit(p)

\* No Script yet, and an empty property map.
IdleScript ==
    [status |-> "none", ip |-> 0, stack |-> <<>>, variables |-> <<>>,
     scopes |-> <<>>, properties |-> <<>>, last |-> "none", calls |-> 0]

\* The threads that call the Runtime.
NumThreads == 2

Threads == 1..NumThreads

Mutexes == {"library", "property", "function", "perf"}

\* A thread outside every method of the Runtime.
IdleThread ==
    [method |-> "none", at |-> 0, id |-> 0, value |-> 0, name |-> "",
     ret |-> <<>>]

\* No mutex held, empty property and function maps.
IdleRuntime ==
    [owner |-> [m \in Mutexes |-> 0],
     th |-> [t \in Threads |-> IdleThread],
     m_propertyMap |-> <<>>,
     m_functionMap |-> <<>>]

\* A Runtime whose library map is libraryMap, before any call.
NoScan == [symbols |-> <<>>, variables |-> {}, cur |-> 0,
           check |-> <<>>, parse |-> <<>>]

\* The sizes of the allocator, in units of a quarter of the alignment of
\* max_align_t: an allocation is aligned to Alignment, a MemoryHeader takes
\* one alignment, a block allocated for the pool holds AllocBlockSize.
Alignment == 4

SizeofMemoryHeader == 4

SizeofMemoryBlock == 7

AllocBlockSize == 16

\* The addresses that m_allocFn hands out for blocks; 0 is nullptr.
MaxBlocks == 3

Addresses == 1..MaxBlocks

\* The memory of a block that m_allocFn never returned; serial counts the
\* times the address was handed out.
NoBlock == [usedBytes |-> 0, allocatedBytes |-> 0, capacity |-> 0,
            count |-> 0, prev |-> 0, next |-> 0, serial |-> 0]

NoStats == [externalAllocCount |-> 0, externalFreeCount |-> 0,
            internalAllocCount |-> 0, internalFreeCount |-> 0,
            currentBlockCount |-> 0, currentAllocatedMemory |-> 0,
            currentUsedMemory |-> 0]

\* A pointer that Alloc returns: the block and the offset of its
\* MemoryHeader, and the bytes that the header records.
NullPtr == [block |-> 0, at |-> 0, bytes |-> 0, serial |-> 0]

NoCall == [op |-> "none", ptr |-> NullPtr, bytes |-> 0, ret |-> NullPtr]

\* BlockHeap::BlockHeap().  mem is the memory at the addresses of blocks,
\* allocated the addresses that m_allocFn returned and m_freeFn has not got
\* back, live the pointers that Alloc and Realloc returned and the caller
\* has not freed, last the call made last.
NoHeap ==
    [mem |-> [a \in Addresses |-> NoBlock], allocated |-> {},
     m_head |-> 0, m_tail |-> 0, m_allocBlockSize |-> AllocBlockSize,
     m_stats |-> NoStats, live |-> {}, last |-> NoCall, made |-> 0,
     ret |-> NullPtr]

IdleParser(libraryMap) ==
    /\ pc = "idle"
    /\ api = "none"
    /\ lexerOk = TRUE
    /\ returned = "none"
    /\ scriptCount = 0
    /\ executeCount = 0
    /\ m_symbolList = <<>>
    /\ m_error = FALSE
    /\ errorText = ""
    /\ m_breakAddress = 0
    /\ m_bytecode = <<>>
    /\ m_requireReturnValue = FALSE
    /\ m_returnedValue = FALSE
    /\ m_variableStackFrame = RootFrames
    /\ m_library = NullLibrary
    /\ m_importList = <<>>
    /\ m_localFunctions = <<>>
    /\ m_libraryMap = libraryMap
    /\ callStack = <<>>
    /\ breaks = <<>>
    /\ loopEnd = <<>>
    /\ resolved = <<>>
    /\ leftover = 0
    /\ calls = <<>>
    /\ vm = IdleScript
    /\ compiled = <<>>
    /\ rt = IdleRuntime

InitWith(libraryMap) ==
    /\ IdleParser(libraryMap)
    /\ scan = NoScan
    /\ heap = NoHeap

EmptyLibraryMap == [n \in {} |-> EmptyLibrary]

Init == InitWith(EmptyLibraryMap)

(***************************************************************************)
(* Actions.                                                                *)
(***************************************************************************)
\* Runtime::Compile up to the parser's header, called directly or through
\* CreateScript(text) or ExecuteScript(text), with the import list the host
\* passes.  A lexer error returns null at once.
CompileBegin(method, lexed, libraries) ==
    /\ pc = "idle"
    /\ api' = method
    /\ lexerOk' = lexed
    /\ IF lexed
       THEN /\ pc' = "imports"
            /\ m_bytecode' = BytecodeHeader
            /\ m_importList' = libraries
            /\ returned' = returned
       ELSE /\ pc' = "done"
            /\ returned' = "null"
            /\ UNCHANGED <<m_bytecode, m_importList>>
    /\ UNCHANGED <<vm, scan, heap, compiled, rt, scriptCount, executeCount,
                   m_symbolList, m_error, errorText, m_breakAddress,
                   m_requireReturnValue,
                   m_returnedValue, m_variableStackFrame, m_library,
                   m_localFunctions, m_libraryMap, callStack, breaks,
                   loopEnd, resolved, leftover, calls>>

\* One pass of the loop of ParseLibraryImports: import <name>.
ImportLine(p) ==
    LET a == ParseName(NextSymbol(p))
        name == a.ret
        b == Expect(a, "NewLine")
        foundDup == \E i \in 1..Len(p.m_importList) : p.m_importList[i] = name
    IN  IF name = ""
        THEN Error(a, "Expected valid name after 'import' keyword")
        ELSE IF b.m_error THEN b
        ELSE IF foundDup THEN b
        ELSE [b EXCEPT !.m_importList = Append(@, name)]

ParseLibraryImports(lines, limit) ==
    /\ pc = "imports"
    /\ Len(m_symbolList) < limit
    /\ ~m_error
    /\ \E line \in lines :
          /\ Commit(ImportLine(ParserAt(line)))
          /\ m_symbolList' = Append(m_symbolList, line)
    /\ UNCHANGED <<pc, hostVars>>

\* ParseLibraryDeclaration on a library line, or on no line when the next
\* symbol is not the keyword library.
LibraryDeclaration(p) ==
    LET a == ParseName(NextSymbol(p))
        libraryName == a.ret
        b == Expect(a, "NewLine")
        declared == Check(p, "Library")
        c == IF declared THEN b ELSE p
        name == IF declared THEN libraryName ELSE ""
        d == EmitName(EmitOpcode(c, "Library"),
                      IF name = "" THEN <<>> ELSE <<name>>)
    IN  IF p.m_library # NullLibrary
        THEN Error(p, "Library has already been declared for this script")
        ELSE IF declared /\ libraryName = ""
        THEN Error(a, "Expected valid name after 'library' keyword")
        ELSE IF declared /\ b.m_error THEN b
        ELSE [d EXCEPT !.m_library = name,
                       !.m_libraryMap =
                           [n \in DOMAIN @ \cup {name} |->
                               IF n \in DOMAIN @ THEN @[n] ELSE EmptyLibrary]]

ParseLibraryDeclaration(lines) ==
    /\ pc = "imports"
    /\ \E line \in lines :
          /\ Commit(LibraryDeclaration(ParserAt(line)))
          /\ m_symbolList' = IF line = <<>> THEN m_symbolList
                             ELSE Append(m_symbolList, line)
    /\ pc' = "statements"
    /\ UNCHANGED hostVars

EndsBlock(line) ==
    /\ callStack # <<>>
    /\ \/ /\ callStack[Len(callStack)].kind \in BlockKinds
          /\ line[1].type \in {"End", "Else", "Until", "While"}
       \/ /\ callStack[Len(callStack)].kind = "function"
          /\ line[1].type = "End"

\* ParseStatement called from the loop of ParseScript, of ParseBlock or of
\* ParseFunctionDefinition.
Statement(lines, limit) ==
    /\ pc = "statements"
    /\ Len(m_symbolList) < limit
    /\ ~m_error
    /\ \E line \in lines :
          /\ ~EndsBlock(line)
          /\ CommitWithin(Call("ParseStatement", ParserAt(line), <<>>))
          /\ m_symbolList' = Append(m_symbolList, line)
    /\ UNCHANGED <<pc, hostVars>>

\* A line that ends the block on top of the call stack.
BlockEnd(lines) ==
    /\ pc = "statements"
    /\ ~m_error
    /\ callStack # <<>>
    /\ callStack[Len(callStack)].kind \in BlockKinds
    /\ \E line \in lines :
          /\ EndsBlock(line)
          /\ Commit(Call("ResumeBlock", ParserAt(line), <<>>))
          /\ m_symbolList' = Append(m_symbolList, line)
    /\ UNCHANGED <<pc, hostVars>>

\* The end line of a function body.
FunctionEnd(lines) ==
    /\ pc = "statements"
    /\ ~m_error
    /\ callStack # <<>>
    /\ callStack[Len(callStack)].kind = "function"
    /\ \E line \in lines :
          /\ EndsBlock(line)
          /\ Commit(Call("ResumeFunction", ParserAt(line), <<>>))
          /\ m_symbolList' = Append(m_symbolList, line)
    /\ UNCHANGED <<pc, hostVars>>

\* The end of the symbol list: ParseScript returns, Parser::Execute
\* returns !m_error, Runtime::Compile returns the bytecode or null, and
\* CreateScript or ExecuteScript goes on only with bytecode.
\* Parser::Execute returns the error status.
ParserExecute(p) == ~p.m_error

\* Bytecode that is always handed back, whatever the parser reported.
CompileReturnUnchecked(p) == "bytecode"

CompileReturn(p) == IF ~ParserExecute(p) THEN "null" ELSE "bytecode"

CompileEnd ==
    /\ pc = "statements"
    /\ LET p == ParseScriptEnd(ParserAt(<<>>))
           bytecode == CompileReturn(p)
       IN  /\ Commit(p)
           /\ returned' = IF api = "Compile" \/ bytecode = "null"
                          THEN bytecode ELSE "script"
           /\ scriptCount' = IF api # "Compile" /\ bytecode # "null"
                             THEN scriptCount + 1 ELSE scriptCount
           /\ executeCount' = IF api = "ExecuteScript" /\ bytecode # "null"
                              THEN executeCount + 1 ELSE executeCount
    /\ pc' = "done"
    /\ UNCHANGED <<api, lexerOk, m_symbolList, vm, scan, heap, compiled, rt>>

(***************************************************************************)
(* Script execution, as far as straight-line integer code goes: PushVal    *)
(* pushes, a binary opcode pops its right then its left operand and pushes *)
(* the result, SetVar pops into a variable.  Anything else stops the run.  *)
(***************************************************************************)
BooleanValue(b) == Variant("Boolean", IF b THEN 1 ELSE 0, "")

Abs(n) == IF n < 0 THEN 0 - n ELSE n

\* Integer division and remainder truncate toward zero.
Quotient(l, r) ==
    IF (l < 0) = (r < 0) THEN Abs(l) \div Abs(r) ELSE 0 - (Abs(l) \div Abs(r))

Remainder(l, r) == l - r * Quotient(l, r)

BinaryOpcodes ==
    {"Add", "Subtract", "Multiply", "Divide", "Mod", "Equals", "NotEquals",
     "Less", "LessEq", "Greater", "GreaterEq"}

ApplyBinary(opcode, left, right) ==
    IF opcode \in {"Equals", "NotEquals"}
    THEN BooleanValue((left = right) = (opcode = "Equals"))
    ELSE IF left.type # "Integer" \/ right.type # "Integer" THEN NullValue
    ELSE LET l == left.v
             r == right.v
         IN  CASE opcode = "Add" -> IntegerValue(l + r)
               [] opcode = "Subtract" -> IntegerValue(l - r)
               [] opcode = "Multiply" -> IntegerValue(l * r)
               [] opcode = "Divide" ->
                    IF r = 0 THEN NullValue ELSE IntegerValue(Quotient(l, r))
               [] opcode = "Mod" ->
                    IF r = 0 THEN NullValue ELSE IntegerValue(Remainder(l, r))
               [] opcode = "Less" -> BooleanValue(l < r)
               [] opcode = "LessEq" -> BooleanValue(l <= r)
               [] opcode = "Greater" -> BooleanValue(l > r)
               [] opcode = "GreaterEq" -> BooleanValue(l >= r)

\* The variables after running instructions i.. with the given stack.
RECURSIVE Run(_, _, _, _)
Run(instructions, i, stack, variables) ==
    IF i > Len(instructions) THEN variables
    ELSE LET inst == instructions[i]
             n == Len(stack)
         IN  IF inst.opcode = "Library"
             THEN Run(instructions, i + 1, stack, variables)
             ELSE IF inst.opcode = "PushVal"
             THEN Run(instructions, i + 1,
                      Append(stack, IntegerValue(inst.value)), variables)
             ELSE IF inst.opcode \in BinaryOpcodes /\ n >= 2
             THEN Run(instructions, i + 1,
                      Append(SubSeq(stack, 1, n - 2),
                             ApplyBinary(inst.opcode, stack[n - 1], stack[n])),
                      variables)
             ELSE IF inst.opcode = "SetVar" /\ n >= 1
             THEN Run(instructions, i + 1, SubSeq(stack, 1, n - 1),
                      [v \in DOMAIN variables \cup {inst.text} |->
                          IF v = inst.text THEN stack[n] ELSE variables[v]])
             ELSE variables

NoVariables == [v \in {} |-> NullValue]

ScriptExecute(bytecode) ==
    Run(LogBytecode(bytecode).instructions, 1, <<>>, NoVariables)

(***************************************************************************)
(* Scripts of one assignment whose right side is a chain of integer        *)
(* operands joined by binary operators.                                    *)
(***************************************************************************)
BinaryOperators ==
    {"Asterisk", "Equals", "NotEquals", "ForwardSlash", "GreaterThan",
     "GreaterThanEquals", "LessThan", "LessThanEquals", "Minus", "Percent",
     "Plus"}

\* The i-th operand of a chain: 3, 4, 2, 3, ...
ChainOperand(i) == <<3, 4, 2>>[((i - 1) % 3) + 1]

\* The operators of the chains of at most MaxOperands operands.
Chains == UNION {[1..n -> BinaryOperators] : n \in 0..(MaxOperands - 1)}

RECURSIVE ChainSymbols(_, _)
ChainSymbols(ops, i) ==
    IF i > Len(ops) THEN <<>>
    ELSE <<O(ops[i]), I(ChainOperand(i + 1))>> \o ChainSymbols(ops, i + 1)

SetTo(words) ==
    <<K("Set", "set")>> \o [i \in 1..Len(words) |-> N(words[i])]
        \o <<K("To", "to")>>

\* set x to o1 op1 o2 ... oN
ChainLine(ops) ==
    SetTo(<<"x">>) \o <<I(ChainOperand(1))>> \o ChainSymbols(ops, 1) \o <<NL>>

\* set x to o1 op1 ... oN opN: an operator without its right operand.
DanglingLine(ops) ==
    SetTo(<<"x">>) \o <<I(ChainOperand(1))>> \o ChainSymbols(ops, 1)
        \o <<O("Plus"), NL>>

ExprLines ==
    {ChainLine(ops) : ops \in Chains} \cup {DanglingLine(ops) : ops \in Chains}

NoLine == {<<>>}

NextExpr ==
    \/ CompileBegin("Compile", TRUE, <<>>)
    \/ ParseLibraryDeclaration(NoLine)
    \/ Statement(ExprLines, 1)
    \/ CompileEnd

SpecExpr == Init /\ [][NextExpr]_vars

\* The compilation of the one-line script <<line>> has returned.
Compiled(line) == pc = "done" /\ m_symbolList = <<line>>

\* The opcodes of the bytecode with their operands' values.
Code(bytecode) ==
    LET instructions == LogBytecode(bytecode).instructions
    IN  [i \in 1..Len(instructions) |->
            <<instructions[i].opcode, instructions[i].value>>]

\* The first position of opcode in the bytecode's instructions, 0 if none.
OpcodeAt(bytecode, opcode) ==
    LET code == Code(bytecode)
        at == {i \in 1..Len(code) : code[i][1] = opcode}
    IN  IF at = {} THEN 0 ELSE CHOOSE i \in at : \A j \in at : i <= j

ValueOf(bytecode, name) ==
    LET variables == ScriptExecute(bytecode)
    IN  IF name \in DOMAIN variables THEN variables[name] ELSE NullValue

\* set x to 3 + 4 * 2
PrecedenceLine == ChainLine(<<"Plus", "Asterisk">>)

\* C3 as stated: for set x to 3 + 4 * 2 the Multiply opcode is emitted
\* before the Add opcode and x is 11 after execution.
C3_MultiplyFirst ==
    Compiled(PrecedenceLine) =>
        /\ ~m_error
        /\ OpcodeAt(m_bytecode, "Multiply") < OpcodeAt(m_bytecode, "Add")
        /\ ValueOf(m_bytecode, "x") = IntegerValue(11)

\* C3 amended: for set x to 3 + 4 * 2 the Add opcode is emitted before the
\* Multiply opcode, each right after its right operand, and x is 14 after
\* execution.
C3_AddFirst ==
    Compiled(PrecedenceLine) =>
        /\ ~m_error
        /\ Code(m_bytecode) =
              <<<<"Library", 0>>, <<"PushVal", 3>>, <<"PushVal", 4>>,
                <<"Add", 0>>, <<"PushVal", 2>>, <<"Multiply", 0>>,
                <<"SetVar", 0>>, <<"Exit", 0>>>>
        /\ ValueOf(m_bytecode, "x") = IntegerValue(14)

C3_Witness ==
    /\ Compiled(PrecedenceLine)
    /\ returned = "bytecode"
    /\ OpcodeAt(m_bytecode, "Multiply") > 0

\* o2, op1, o3, op2, ..., oN, opN-1
RECURSIVE ChainCode(_, _)
ChainCode(ops, i) ==
    IF i > Len(ops) THEN <<>>
    ELSE <<<<"PushVal", ChainOperand(i + 1)>>, <<BinaryOpcode(ops[i]), 0>>>>
             \o ChainCode(ops, i + 1)

\* C4: for every chain o1 op1 o2 ... oN the bytecode is o1, o2, op1, o3,
\* op2, ..., oN, opN-1, and the operator stack is empty at the end of every
\* expression that parsed without error.
C4_LeftToRight ==
    /\ \A ops \in Chains :
          Compiled(ChainLine(ops)) =>
              /\ ~m_error
              /\ Code(m_bytecode) =
                    <<<<"Library", 0>>, <<"PushVal", ChainOperand(1)>>>>
                        \o ChainCode(ops, 1)
                        \o <<<<"SetVar", 0>>, <<"Exit", 0>>>>
    /\ ~m_error => leftover = 0

C4_Witness ==
    /\ Compiled(ChainLine(<<"Minus", "LessThanEquals">>))
    /\ returned = "bytecode"
    /\ OpcodeAt(m_bytecode, "Subtract") = 4
    /\ OpcodeAt(m_bytecode, "LessEq") = 6

(***************************************************************************)
(* The three entry points of the Runtime on scripts that compile and       *)
(* scripts that do not.                                                    *)
(***************************************************************************)
MaxHostLines == 3

Methods == {"Compile", "CreateScript", "ExecuteScript"}

One == <<I(1), NL>>

HostImportLines ==
    {<<K("Import", "import"), N("a"), NL>>, <<K("Import", "import"), NL>>}

HostLibraryLines == {<<>>, <<K("Library", "library"), N("b"), NL>>}

HostLines ==
    {SetTo(<<"x">>) \o One,
     SetTo(<<"x">>) \o <<NL>>,
     <<K("Break", "break"), NL>>,
     <<K("Loop", "loop"), K("While", "while")>> \o One,
     <<K("End", "end"), NL>>,
     <<K("Erase", "erase"), N("x"), NL>>}

NextHost ==
    \/ \E method \in Methods, lexed \in BOOLEAN :
          CompileBegin(method, lexed, <<>>)
    \/ ParseLibraryImports(HostImportLines, MaxHostLines)
    \/ ParseLibraryDeclaration(HostLibraryLines)
    \/ Statement(HostLines, MaxHostLines)
    \/ BlockEnd(HostLines)
    \/ CompileEnd

SpecHost == Init /\ [][NextHost]_vars

Failed == ~lexerOk \/ m_error

\* C2: Compile returns null whenever the lexer or the parser reports an
\* error and the parser's bytecode only when both succeed; CreateScript and
\* ExecuteScript then return null, create no Script and execute nothing.
C2_NoBytecodeOnError ==
    pc = "done" =>
        /\ Failed => /\ returned = "null"
                     /\ scriptCount = 0
                     /\ executeCount = 0
        /\ ~Failed /\ api = "Compile" => returned = "bytecode"
        /\ ~Failed /\ api # "Compile" =>
              /\ returned = "script"
              /\ scriptCount = 1
              /\ executeCount = (IF api = "ExecuteScript" THEN 1 ELSE 0)

C2_Witness ==
    /\ pc = "done"
    /\ api = "ExecuteScript"
    /\ lexerOk
    /\ m_error
    /\ Len(m_bytecode) > HeaderSize
    /\ returned = "null"

(***************************************************************************)
(* Scripts of loops of the four forms, break statements and assignments.   *)
(***************************************************************************)
BreakLines ==
    {<<K("Loop", "loop"), K("While", "while")>> \o One,
     <<K("Loop", "loop"), NL>>,
     <<K("Loop", "loop"), K("From", "from"), I(1), K("To", "to"), I(2), NL>>,
     <<K("Loop", "loop"), K("Over", "over")>> \o One,
     <<K("Break", "break"), NL>>,
     <<K("End", "end"), NL>>,
     <<K("Until", "until")>> \o One,
     SetTo(<<"x">>) \o One}

NextBreak ==
    \/ CompileBegin("Compile", TRUE, <<>>)
    \/ ParseLibraryDeclaration(NoLine)
    \/ Statement(BreakLines, MaxLines)
    \/ BlockEnd(BreakLines)
    \/ CompileEnd

SpecBreak == Init /\ [][NextBreak]_vars

\* The address that the Jump of the i-th break carries in the bytecode.
BreakTarget(i) == ReadNumber(m_bytecode, breaks[i].address, 4)

\* C5: in the bytecode of a script that compiled, the Jump of every break
\* inside a loop targets the offset one past the end of the innermost loop
\* around the break.
C5_BreakTargets ==
    pc = "done" /\ ~m_error =>
        \A i \in 1..Len(breaks) :
            breaks[i].loop # 0 => BreakTarget(i) = loopEnd[breaks[i].loop]

\* C6: a script with a break outside every loop does not compile, whatever
\* precedes or follows the break.
C6_IllegalBreak ==
    pc = "done" /\ (\E i \in 1..Len(breaks) : breaks[i].loop = 0) => m_error

(***************************************************************************)
(* Scripts of function definitions with and without a return value, return *)
(* statements and if/else blocks.                                          *)
(***************************************************************************)
FunctionReturn(name) ==
    <<K("Function", "function"), K("Return", "return"), N(name), NL>>

ReturnValueLine == <<K("Return", "return")>> \o One

ReturnLines ==
    {FunctionReturn("f"),
     FunctionReturn("g"),
     <<K("Function", "function"), N("h"), NL>>,
     ReturnValueLine,
     <<K("Return", "return"), NL>>,
     <<K("If", "if")>> \o One,
     <<K("Else", "else"), NL>>,
     <<K("End", "end"), NL>>}

NextReturn ==
    \/ CompileBegin("Compile", TRUE, <<>>)
    \/ ParseLibraryDeclaration(NoLine)
    \/ Statement(ReturnLines, MaxLines)
    \/ BlockEnd(ReturnLines)
    \/ FunctionEnd(ReturnLines)
    \/ CompileEnd

SpecReturn == Init /\ [][NextReturn]_vars

\* Whether the statements of lines from index i up to the end or else that
\* closes their block return a value on all paths, and the index of that
\* closing line.
RECURSIVE ReturnsOnAllPaths(_, _)
ReturnsOnAllPaths(lines, i) ==
    IF i > Len(lines) THEN [returns |-> FALSE, next |-> i]
    ELSE IF lines[i][1].type \in {"End", "Else"}
    THEN [returns |-> FALSE, next |-> i]
    ELSE IF lines[i] = ReturnValueLine
    THEN [returns |-> TRUE, next |-> ReturnsOnAllPaths(lines, i + 1).next]
    ELSE IF lines[i][1].type = "If"
    THEN LET then == ReturnsOnAllPaths(lines, i + 1)
             else == ReturnsOnAllPaths(lines, then.next + 1)
             closed == IF then.next <= Len(lines)
                          /\ lines[then.next][1].type = "Else"
                       THEN else.next ELSE then.next
             rest == ReturnsOnAllPaths(lines, closed + 1)
             both == /\ then.next <= Len(lines)
                     /\ lines[then.next][1].type = "Else"
                     /\ then.returns /\ else.returns
         IN  [returns |-> both \/ rest.returns, next |-> rest.next]
    ELSE ReturnsOnAllPaths(lines, i + 1)

\* The number of blocks and function bodies open at line i.
RECURSIVE OpenAt(_, _)
OpenAt(lines, i) ==
    IF i <= 1 THEN 0
    ELSE OpenAt(lines, i - 1)
            + (IF lines[i - 1][1].type \in {"Function", "If"} THEN 1 ELSE 0)
            - (IF lines[i - 1][1].type = "End" THEN 1 ELSE 0)

\* C7: a script compiles only if the body of each of its functions that
\* declare a return value returns a value on all paths, whatever functions
\* come before it, and only if no return at the top level carries a value.
C7_RequiredReturnValue ==
    pc = "done" /\ ~m_error =>
        \A i \in 1..Len(m_symbolList) :
            /\ m_symbolList[i] \in {FunctionReturn("f"), FunctionReturn("g")}
                  => ReturnsOnAllPaths(m_symbolList, i + 1).returns
            /\ m_symbolList[i] = ReturnValueLine
                  => OpenAt(m_symbolList, i) > 0

(***************************************************************************)
(* Scripts that declare a property, assign a variable and erase either,    *)
(* whole or by element.                                                    *)
(***************************************************************************)
Element == <<O("SquareOpen"), I(1), O("SquareClose")>>

Erase(name) == <<K("Erase", "erase"), N(name)>>

ErasePropertyElement == Erase("p") \o Element \o <<NL>>

EraseLines ==
    {<<K("Set", "set"), K("Public", "public"), N("p"), K("To", "to")>> \o One,
     SetTo(<<"x">>) \o One,
     SetTo(<<"p">>) \o One,
     SetTo(<<"x">>) \o <<N("p"), NL>>,
     Erase("p") \o <<NL>>,
     ErasePropertyElement,
     Erase("x") \o <<NL>>,
     Erase("x") \o Element \o <<NL>>}

NextErase ==
    \/ CompileBegin("Compile", TRUE, <<>>)
    \/ ParseLibraryDeclaration(NoLine)
    \/ Statement(EraseLines, MaxLines)
    \/ CompileEnd

SpecErase == Init /\ [][NextErase]_vars

\* C1: in the bytecode of every script that compiled, a reader that takes
\* after each opcode the operand of that opcode's layout finds an opcode
\* after every instruction, up to the Exit that ends the bytecode.
C1_OperandLayout ==
    pc = "done" /\ ~m_error =>
        LET log == LogBytecode(m_bytecode)
        IN  /\ log.aligned
            /\ log.instructions[Len(log.instructions)].opcode = "Exit"

(***************************************************************************)
(* Scripts that import the libraries a and b, declare themselves library b *)
(* or no library, and refer to the property p.  The library map is the one *)
(* earlier compilations left: a and b each hold p as a public property, as *)
(* a private property, or not at all.                                      *)
(***************************************************************************)
MaxImports == 2

Registered == {"None", "Public", "Private"}

\* The library libName after set <visibility> p to ... was compiled in it.
LibraryWith(libName, visibility) ==
    IF visibility = "None" THEN EmptyLibrary
    ELSE [props |-> {PropertyName(visibility, FALSE, libName, <<"p">>)},
          fns |-> <<>>]

InitProp ==
    \E va, vb \in Registered :
        InitWith([n \in {"a", "b"} |->
                     LibraryWith(n, IF n = "a" THEN va ELSE vb)])

Import(name) == <<K("Import", "import"), N(name), NL>>

PropImportLines == {Import("a"), Import("b")}

PropLibraryLines == {<<>>, <<K("Library", "library"), N("b"), NL>>}

\* set q to a p
PrefixedLine == SetTo(<<"q">>) \o <<N("a"), N("p"), NL>>

PropLines ==
    {SetTo(<<"q">>) \o <<N("p"), NL>>,
     PrefixedLine,
     SetTo(<<"p">>) \o <<I(5), NL>>,
     Erase("p") \o <<NL>>}

NextProp ==
    \/ CompileBegin("Compile", TRUE, <<>>)
    \/ ParseLibraryImports(PropImportLines, MaxImports)
    \/ ParseLibraryDeclaration(PropLibraryLines)
    \/ Statement(PropLines, MaxLines)
    \/ CompileEnd

SpecProp == InitProp /\ [][NextProp]_vars

PropertyOpcodes ==
    {"PushProp", "PushPropKeyVal", "SetProp", "SetPropKeyVal", "EraseProp"}

\* The ids that the property opcodes of the bytecode carry.
PropertyIds(bytecode) ==
    LET instructions == LogBytecode(bytecode).instructions
    IN  {instructions[i].value :
            i \in {j \in 1..Len(instructions) :
                      instructions[j].opcode \in PropertyOpcodes}}

\* The ids of the private properties of the libraries other than libName.
PrivateElsewhere(libName) ==
    {pn.id : pn \in {qn \in UNION {m_libraryMap[n].props :
                                      n \in DOMAIN m_libraryMap \ {libName}} :
                        qn.visibility = "Private"}}

Imported(name) == \E i \in 1..Len(m_importList) : m_importList[i] = name

\* C8: the bytecode of a script that compiled carries in no property opcode
\* the id of a private property of a library other than the script's, and
\* the reference a p to a private property p of the imported library a
\* fails with 'Unable to access private property'.
C8_PrivateProperty ==
    pc = "done" =>
        /\ ~m_error =>
              PropertyIds(m_bytecode) \cap PrivateElsewhere(m_library) = {}
        /\ /\ m_symbolList # <<>>
           /\ m_symbolList[Len(m_symbolList)] = PrefixedLine
           /\ Imported("a")
           /\ m_library # "a"
           /\ GetPropertyName(m_libraryMap["a"], <<"p">>).visibility = "Private"
           => m_error /\ errorText = "Unable to access private property"

\* The imports in which the property name is registered.
ImportsWith(name) ==
    {i \in 1..Len(m_importList) :
        PropertyNameExists(m_libraryMap[m_importList[i]], name)}

\* C9: an unprefixed reference to p, when the current library does not
\* define p and exactly one import holds p, as a public property, makes
\* ParsePropertyName return that property and consume the one symbol of
\* its name, and the property opcodes emitted carry its id, wherever the
\* import stands in the import list.
C9_ImportedProperty ==
    \A i \in ImportsWith(<<"p">>) :
        LET P == GetPropertyName(m_libraryMap[m_importList[i]], <<"p">>)
        IN  /\ ImportsWith(<<"p">>) = {i}
            /\ P.visibility = "Public"
            /\ m_library # NullLibrary
            /\ ~PropertyNameExists(GetLibraryInternal(
                                       [m_libraryMap |-> m_libraryMap],
                                       m_library), <<"p">>)
            => /\ \A k \in 1..Len(resolved) :
                     resolved[k].line[resolved[k].at] = N("p")
                        => /\ resolved[k].propertyName = P
                           /\ resolved[k].consumed = 1
               /\ pc = "done" /\ ~m_error =>
                     PropertyIds(m_bytecode) \subseteq {P.id}

(***************************************************************************)
(* Scripts that import the libraries a and b, declare themselves library c *)
(* or no library, define the local function f and call f, with and without *)
(* the prefix a.  The library map is the one earlier compilations left:    *)
(* the default library, a, b and c each hold a function f or none.         *)
(***************************************************************************)
\* The parts of the signature f.
SignatureF == <<NamePart(<<"f">>, FALSE)>>

\* The library libName after <visibility> function f was compiled in it.
LibraryWithFunction(libName, visibility) ==
    IF visibility = "None" THEN EmptyLibrary
    ELSE [props |-> {},
          fns |-> <<FunctionSignature(visibility, FALSE, libName,
                                      SignatureF)>>]

InitCall ==
    \E vd, vc \in {"None", "Public"}, va, vb \in Registered :
        InitWith([n \in {"", "a", "b", "c"} |->
                     LibraryWithFunction(n, CASE n = "" -> vd
                                              [] n = "a" -> va
                                              [] n = "b" -> vb
                                              [] n = "c" -> vc)])

CallLibraryLines == {<<>>, <<K("Library", "library"), N("c"), NL>>}

\* f
UnprefixedCall == <<N("f"), NL>>

\* a f
PrefixedCall == <<N("a"), N("f"), NL>>

CallLines ==
    {<<K("Function", "function"), N("f"), NL>>,
     <<K("End", "end"), NL>>,
     UnprefixedCall,
     PrefixedCall}

NextCall ==
    \/ CompileBegin("Compile", TRUE, <<>>)
    \/ ParseLibraryImports(PropImportLines, MaxImports)
    \/ ParseLibraryDeclaration(CallLibraryLines)
    \/ Statement(CallLines, MaxLines + 1)
    \/ FunctionEnd(CallLines)
    \/ CompileEnd

SpecCall == InitCall /\ [][NextCall]_vars

\* The last statement parsed is line, and CheckFunctionCall has looked at it.
Called(line) ==
    /\ pc = "statements"
    /\ m_symbolList # <<>>
    /\ m_symbolList[Len(m_symbolList)] = line
    /\ calls # <<>>
    /\ calls[Len(calls)].line = line

LastCall == calls[Len(calls)].signature

\* The function f of the library libName, if any.
FunctionOf(libName) == Find(m_libraryMap[libName].fns, SignatureF)

\* The imports whose library holds a function f.
ImportsWithFunction ==
    {i \in 1..Len(m_importList) : FunctionOf(m_importList[i]).valid}

FirstImportWithFunction ==
    CHOOSE i \in ImportsWithFunction : \A j \in ImportsWithFunction : i <= j

\* What the local table, then the current library give for f.
LocalOrCurrent(otherwise) ==
    IF Find(m_localFunctions, SignatureF).valid
    THEN Find(m_localFunctions, SignatureF)
    ELSE IF FunctionOf(m_library).valid THEN FunctionOf(m_library)
    ELSE otherwise

\* The first import, in import order, that holds f.
FirstImport ==
    IF ImportsWithFunction = {} THEN NoSignature
    ELSE FunctionOf(m_importList[FirstImportWithFunction])

\* The one import that holds f, when f is public or the import is the
\* current library; nothing when two imports hold f.
OnlyImport ==
    IF ImportsWithFunction = {} THEN NoSignature
    ELSE LET libName == m_importList[FirstImportWithFunction]
         IN  IF /\ FunctionOf(libName).visibility = "Private"
                /\ libName # m_library
             THEN NoSignature
             ELSE IF Cardinality(ImportsWithFunction) > 1 THEN NoSignature
             ELSE FunctionOf(libName)

\* C10 as stated: with the prefix a only the table of a is searched;
\* without prefix the local table, then the current library, then the
\* imports in order, the first match being returned.
C10_FourStages ==
    /\ Called(PrefixedCall) /\ Imported("a") => LastCall = FunctionOf("a")
    /\ Called(UnprefixedCall) => LastCall = LocalOrCurrent(FirstImport)

\* C10 amended: with the prefix a only the table of a is searched; without
\* prefix the local table, then the current library, then the default
\* library, then all the imports, which give their match only when exactly
\* one import matches and the match is not private to another library.
C10_FiveStages ==
    /\ Called(PrefixedCall) /\ Imported("a") => LastCall = FunctionOf("a")
    /\ Called(UnprefixedCall) =>
          LastCall = LocalOrCurrent(IF FunctionOf("").valid
                                    THEN FunctionOf("") ELSE OnlyImport)

C10_Witness ==
    /\ Called(UnprefixedCall)
    /\ m_library = "c"
    /\ m_localFunctions = <<>>
    /\ ~FunctionOf("c").valid
    /\ Imported("a") /\ FunctionOf("a").valid
    /\ LastCall = FunctionOf("")
    /\ LastCall.valid

\* The CallFunc instructions of the bytecode.
CallFuncCount(bytecode) ==
    LET instructions == LogBytecode(bytecode).instructions
    IN  Cardinality({i \in 1..Len(instructions) :
                        instructions[i].opcode = "CallFunc"})

\* The statements for which CheckFunctionCall returned a signature.
ResolvedCalls == {k \in 1..Len(calls) : calls[k].signature.valid}

\* The call f stands where the imports a and b both hold a function f and
\* neither the local table nor the current library does.
AmbiguousCall ==
    /\ Called(UnprefixedCall)
    /\ Imported("a") /\ FunctionOf("a").valid
    /\ Imported("b") /\ FunctionOf("b").valid
    /\ ~Find(m_localFunctions, SignatureF).valid
    /\ ~FunctionOf(m_library).valid

\* The call resolved to no signature, failed the compilation and emitted
\* no CallFunc.
Unresolved ==
    /\ ~LastCall.valid
    /\ m_error
    /\ CallFuncCount(m_bytecode) = Cardinality(ResolvedCalls)

\* C11 as stated: when two imports each hold a function the call matches
\* and neither the local table nor the current library matches, the call
\* resolves to no signature, the compilation fails and no CallFunc is
\* emitted for it.
C11_AmbiguousAsStated == AmbiguousCall => Unresolved

\* C11 amended: the same when the default library does not match either.
C11_Ambiguous == AmbiguousCall /\ ~FunctionOf("").valid => Unresolved

C11_Witness ==
    /\ AmbiguousCall
    /\ m_library = "c"
    /\ FunctionOf("a").visibility = "Public"
    /\ FunctionOf("b").visibility = "Public"
    /\ ~FunctionOf("").valid
    /\ m_error
    /\ errorText = "Unknown symbol in statement"

\* The ids that the CallFunc instructions of the bytecode carry.
CallFuncIds(bytecode) ==
    LET instructions == LogBytecode(bytecode).instructions
    IN  {instructions[i].value :
            i \in {j \in 1..Len(instructions) :
                      instructions[j].opcode = "CallFunc"}}

\* The ids of the private functions of the libraries other than libName.
PrivateFunctionsElsewhere(libName) ==
    {FunctionOf(n).id :
        n \in {l \in DOMAIN m_libraryMap \ {libName} :
                  FunctionOf(l).visibility = "Private"}}

\* C12: CheckFunctionCall never returns a function that is private to a
\* library other than the current one, through the imports or with the
\* library prefix, and no CallFunc of a compiled script targets one.
C12_PrivateFunction ==
    /\ \A k \in 1..Len(calls) :
          calls[k].signature.visibility = "Private"
             => calls[k].signature.lib = m_library
    /\ pc = "done" /\ ~m_error =>
          CallFuncIds(m_bytecode) \cap PrivateFunctionsElsewhere(m_library)
             = {}

(***************************************************************************)
(* Script execution by instruction.  The Script holds an instruction       *)
(* pointer (a byte offset into the bytecode), a value stack, a table of    *)
(* variables and the stack depths saved at ScopeBegin; properties live in  *)
(* the Runtime.  One call of execute() runs until the script ends, fails,  *)
(* reaches a Wait or has used its instruction budget.                      *)
(***************************************************************************)
Budget == 64

\* The calls of execute() that the host makes on one script.
MaxCalls == 4

Lookup(map, key) == IF key \in DOMAIN map THEN map[key] ELSE NullValue

Store(map, key, value) ==
    [k \in DOMAIN map \cup {key} |-> IF k = key THEN value ELSE map[k]]

Truthy(value) == value.type \in {"Boolean", "Integer"} /\ value.v # 0

\* The value that the PushVal at offset at carries.
ValueAt(bytecode, at) ==
    IF bytecode[at + 2].op = "Integer"
    THEN IntegerValue(OperandValue(bytecode, at, "PushVal"))
    ELSE NullValue

Fail(script) == [script EXCEPT !.status = "error"]

\* LoopCount on the counter, the bound and the step on top of the stack:
\* the counter advances by the step and the comparison with the bound is
\* pushed.  Without a step the loop counts toward the bound by one.
LoopCount(script, next) ==
    LET n == Len(script.stack)
        counter == script.stack[n - 2]
        bound == script.stack[n - 1]
        by == script.stack[n]
        step == IF by.type = "Integer" THEN by.v
                ELSE IF counter.v <= bound.v THEN 1 ELSE 0 - 1
        advanced == counter.v + step
    IN  IF n < 3 THEN Fail(script)
        ELSE IF counter.type # "Integer" \/ bound.type # "Integer"
        THEN Fail(script)
        ELSE [script EXCEPT
                 !.ip = next,
                 !.stack = SubSeq(@, 1, n - 3)
                              \o <<IntegerValue(advanced), bound, by,
                                   BooleanValue(IF step > 0
                                                THEN advanced <= bound.v
                                                ELSE advanced >= bound.v)>>]

\* One instruction.
Step(script, bytecode) ==
    LET at == script.ip
        valid == at < Len(bytecode) /\ bytecode[at + 1].k = "op"
        opcode == bytecode[at + 1].op
        size == OperandSize(bytecode, at, opcode)
        next == at + 1 + size
        value == OperandValue(bytecode, at, opcode)
        text == OperandText(bytecode, at, opcode)
        n == Len(script.stack)
        go == [script EXCEPT !.ip = next]
    IN  IF ~valid THEN Fail(script)
        ELSE IF size < 0 \/ next > Len(bytecode) THEN Fail(script)
        ELSE IF opcode \in {"Library", "Property", "Function"} THEN go
        ELSE IF opcode = "Exit" THEN [script EXCEPT !.status = "finished"]
        ELSE IF opcode = "Wait" THEN [go EXCEPT !.status = "waiting"]
        ELSE IF opcode = "Jump" THEN [script EXCEPT !.ip = value]
        ELSE IF opcode = "ScopeBegin"
        THEN [go EXCEPT !.scopes = Append(@, n)]
        ELSE IF opcode = "ScopeEnd"
        THEN IF script.scopes = <<>> THEN Fail(script)
             ELSE LET depth == script.scopes[Len(script.scopes)]
                  IN  [go EXCEPT
                          !.scopes = SubSeq(@, 1, Len(@) - 1),
                          !.stack = IF depth < n THEN SubSeq(@, 1, depth)
                                    ELSE @]
        ELSE IF opcode = "PushVal"
        THEN [go EXCEPT !.stack = Append(@, ValueAt(bytecode, at))]
        ELSE IF opcode = "PushVar"
        THEN [go EXCEPT !.stack = Append(@, Lookup(script.variables, text))]
        ELSE IF opcode = "PushProp"
        THEN [go EXCEPT !.stack = Append(@, Lookup(script.properties, value))]
        ELSE IF opcode = "LoopCount" THEN LoopCount(script, next)
        ELSE IF n = 0 THEN Fail(script)
        ELSE IF opcode = "Pop" THEN [go EXCEPT !.stack = SubSeq(@, 1, n - 1)]
        ELSE IF opcode = "PushTop"
        THEN [go EXCEPT !.stack = Append(@, script.stack[n])]
        ELSE IF opcode = "SetVar"
        THEN [go EXCEPT !.stack = SubSeq(@, 1, n - 1),
                        !.variables = Store(@, text, script.stack[n])]
        ELSE IF opcode = "SetProp"
        THEN [go EXCEPT !.stack = SubSeq(@, 1, n - 1),
                        !.properties = Store(@, value, script.stack[n])]
        ELSE IF opcode \in {"JumpTrue", "JumpFalse"}
        THEN [script EXCEPT
                 !.stack = SubSeq(@, 1, n - 1),
                 !.ip = IF Truthy(script.stack[n]) = (opcode = "JumpTrue")
                        THEN value ELSE next]
        ELSE IF opcode \in BinaryOpcodes /\ n >= 2
        THEN [go EXCEPT
                 !.stack = Append(SubSeq(@, 1, n - 2),
                                  ApplyBinary(opcode, script.stack[n - 1],
                                              script.stack[n]))]
        ELSE Fail(script)

\* The instructions of one call of execute().
RECURSIVE RunQuantum(_, _, _)
RunQuantum(script, bytecode, budget) ==
    IF script.status # "running" \/ budget = 0 THEN script
    ELSE RunQuantum(Step(script, bytecode), bytecode, budget - 1)

Execute(script, bytecode) ==
    RunQuantum([script EXCEPT !.status = "running", !.last = "execute",
                              !.calls = @ + 1],
               bytecode, Budget)

compileVars ==
    <<pc, api, lexerOk, returned, scriptCount, executeCount, compiled, rt,
      scan, heap, m_symbolList, parserVars>>

\* Runtime::CreateScript(bytecode) on the bytecode that Compile returned.
ScriptCreate ==
    /\ pc = "done"
    /\ returned = "bytecode"
    /\ vm.status = "none"
    /\ vm' = [vm EXCEPT !.status = "ready", !.ip = HeaderSize,
                        !.last = "create"]
    /\ UNCHANGED compileVars

\* One call of execute() on a script that has not ended.
ScriptExecuteCall ==
    /\ pc = "done"
    /\ vm.status \in {"ready", "waiting"}
    /\ vm.calls < MaxCalls
    /\ vm' = Execute(vm, m_bytecode)
    /\ UNCHANGED compileVars

\* Runtime::SetProperty called by the host between two calls of execute().
HostSetProperty(ids, values) ==
    /\ pc = "done"
    /\ vm.status \in {"ready", "waiting"}
    /\ \E id \in ids, value \in values :
          vm' = [vm EXCEPT !.properties = Store(@, id, value),
                           !.last = "host"]
    /\ UNCHANGED compileVars

(***************************************************************************)
(* Scripts that wait on the property p of the default library, which an    *)
(* earlier compilation declared public; the host sets p between the calls  *)
(* of execute().                                                           *)
(***************************************************************************)
InitWait == InitWith([n \in {""} |-> LibraryWith("", "Public")])

\* p = 1
Condition == <<N("p"), K("Equals", "="), I(1), NL>>

WaitUntil == <<K("Wait", "wait"), K("Until", "until")>> \o Condition

WaitWhile == <<K("Wait", "wait"), K("While", "while")>> \o Condition

WaitLines ==
    {WaitUntil, WaitWhile, <<K("Wait", "wait"), NL>>, SetTo(<<"x">>) \o One}

PropertyP == PropertyId("", <<"p">>)

NextWait ==
    \/ CompileBegin("Compile", TRUE, <<>>)
    \/ ParseLibraryDeclaration({<<>>})
    \/ Statement(WaitLines, MaxHostLines)
    \/ CompileEnd
    \/ ScriptCreate
    \/ ScriptExecuteCall
    \/ HostSetProperty({PropertyP}, {IntegerValue(0), IntegerValue(1)})

SpecWait == InitWait /\ [][NextWait]_vars

\* The index in the log of the instruction at the byte offset at, or 0.
InstructionAt(instructions, at) ==
    LET found == {j \in 1..Len(instructions) : instructions[j].at = at}
    IN  IF found = {} THEN 0 ELSE CHOOSE j \in found : TRUE

\* The script is suspended at the Wait of a wait until or wait while: the
\* instruction before the Wait is the conditional jump over it.
SuspendedAtCondition(script, instructions) ==
    LET j == InstructionAt(instructions, script.ip)
    IN  /\ script.status = "waiting"
        /\ j > 2
        /\ instructions[j - 1].opcode = "Wait"
        /\ instructions[j - 2].opcode \in {"JumpTrue", "JumpFalse"}

\* p = 1 as the runtime's property map has it.
ConditionHolds(script) ==
    Lookup(script.properties, PropertyP) = IntegerValue(1)

\* The wait at which the script is suspended is over: C is true for wait
\* until, false for wait while.
ConditionMet(script, instructions) ==
    LET j == InstructionAt(instructions, script.ip)
    IN  ConditionHolds(script) = (instructions[j - 2].opcode = "JumpTrue")

\* A call of execute() on the suspended script.
Resumed == vm.status = "waiting" /\ vm'.calls = vm.calls + 1

\* C13: on a script suspended at wait until C (wait while C), the
\* instruction after the Wait jumps back to the first instruction of C; a
\* call of execute() made while C is false (true) leaves the script
\* suspended at the same Wait and not finished; a call made once C is true
\* (false) goes past the Wait, and the script is finished when no other
\* Wait follows.
C13_WaitCondition ==
    [][pc = "done" /\ Resumed =>
          LET instructions == LogBytecode(m_bytecode).instructions
              j == InstructionAt(instructions, vm.ip)
          IN  SuspendedAtCondition(vm, instructions) =>
                 /\ instructions[j].opcode = "Jump"
                 /\ j > 5
                 /\ instructions[j - 5].opcode = "PushProp"
                 /\ instructions[j].value = instructions[j - 5].at
                 /\ ~ConditionMet(vm, instructions) =>
                       /\ vm'.status = "waiting"
                       /\ vm'.ip = vm.ip
                 /\ ConditionMet(vm, instructions) =>
                       /\ vm'.ip > vm.ip
                       /\ vm'.status \in {"waiting", "finished"}
                       /\ vm'.status = "waiting" =>
                             instructions[InstructionAt(instructions, vm'.ip)
                                          - 1].opcode = "Wait"
                       /\ (\A k \in (j + 1)..Len(instructions) :
                              instructions[k].opcode # "Wait")
                             => vm'.status = "finished"]_vars

\* A script that was suspended at least twice and then ran to its end.
C13_Witness ==
    /\ pc = "done"
    /\ vm.status = "finished"
    /\ vm.calls >= 3
    /\ m_symbolList = <<WaitUntil>>

(***************************************************************************)
(* Scripts that count the passes through counter loops in the variable n,  *)
(* created, and run by one call of execute().                              *)
(***************************************************************************)
From == {1}

To == 0..3

By == {1, 2}

\* loop from A to B by S
LoopFrom(A, B, S) ==
    <<K("Loop", "loop"), K("From", "from"), I(A), K("To", "to"), I(B),
      K("By", "by"), I(S), NL>>

\* set n to n + 1
CountPass == SetTo(<<"n">>) \o <<N("n"), O("Plus"), I(1), NL>>

LoopLines ==
    {LoopFrom(A, B, S) : A \in From, B \in To, S \in By}
        \cup {SetTo(<<"n">>) \o <<I(0), NL>>,
              CountPass,
              <<K("Break", "break"), NL>>,
              <<K("End", "end"), NL>>}

NextLoop ==
    \/ CompileBegin("Compile", TRUE, <<>>)
    \/ ParseLibraryDeclaration(NoLine)
    \/ Statement(LoopLines, MaxHostLines + 1)
    \/ BlockEnd(LoopLines)
    \/ CompileEnd
    \/ ScriptCreate
    \/ ScriptExecuteCall

SpecLoop == Init /\ [][NextLoop]_vars

\* set n to 0 / loop from A to B by S / set n to n + 1 / end
CountingScript(A, B, S) ==
    <<SetTo(<<"n">>) \o <<I(0), NL>>, LoopFrom(A, B, S), CountPass,
      <<K("End", "end"), NL>>>>

\* max(0, ceil((B - A + sign(S)) / S)) for a positive step S.
Passes(A, B, S) ==
    IF B - A + 1 <= 0 THEN 0 ELSE (B - A + 1 + S - 1) \div S

\* The script has run to its end.
Finished == pc = "done" /\ vm.status = "finished"

\* C14: the body of loop from A to B by S runs max(0, ceil((B-A+sign(S))/S))
\* times and the loop is left: after the counting script has run to its
\* end, n holds that number, zero included.
C14_LoopPasses ==
    \A A \in From, B \in To, S \in By :
        Finished /\ m_symbolList = CountingScript(A, B, S)
            => Lookup(vm.variables, "n") = IntegerValue(Passes(A, B, S))

\* The same for the loops whose bound is not below their start.
C14_UpwardLoopPasses ==
    \A A \in From, B \in To, S \in By :
        Finished /\ m_symbolList = CountingScript(A, B, S) /\ B >= A
            => Lookup(vm.variables, "n") = IntegerValue(Passes(A, B, S))

\* The script holds no break.
NoBreak ==
    \A i \in 1..Len(m_symbolList) : m_symbolList[i][1].type # "Break"

\* C15: the value stack is empty when execution reaches Exit, whatever the
\* statements of the script, loops left through break included.
C15_StackEmptyAtExit == Finished => vm.stack = <<>>

\* The same for the scripts without break.
C15_StackEmptyWithoutBreak == Finished /\ NoBreak => vm.stack = <<>>

(***************************************************************************)
(* Runtime::Compile called again on the same Runtime.  Every call builds a *)
(* new Parser; the library map belongs to the Runtime and keeps what the   *)
(* earlier compilations registered in it.                                  *)
(***************************************************************************)
MaxCompiles == 2

CompileAgain ==
    /\ pc = "done"
    /\ Len(compiled) + 1 < MaxCompiles
    /\ compiled' = Append(compiled, [text |-> m_symbolList,
                                     libraries |-> m_importList,
                                     returned |-> returned,
                                     bytecode |-> m_bytecode])
    /\ pc' = "idle"
    /\ api' = "none"
    /\ lexerOk' = TRUE
    /\ returned' = "none"
    /\ m_symbolList' = <<>>
    /\ m_error' = FALSE
    /\ errorText' = ""
    /\ m_breakAddress' = 0
    /\ m_bytecode' = <<>>
    /\ m_requireReturnValue' = FALSE
    /\ m_returnedValue' = FALSE
    /\ m_variableStackFrame' = RootFrames
    /\ m_library' = NullLibrary
    /\ m_importList' = <<>>
    /\ m_localFunctions' = <<>>
    /\ callStack' = <<>>
    /\ breaks' = <<>>
    /\ loopEnd' = <<>>
    /\ resolved' = <<>>
    /\ leftover' = 0
    /\ calls' = <<>>
    /\ UNCHANGED <<m_libraryMap, scriptCount, executeCount, vm, scan, heap, rt>>

\* set public p to 1
PropertyLine ==
    <<K("Set", "set"), K("Public", "public"), N("p"), K("To", "to")>> \o One

\* public function f
PublicFunctionLine ==
    <<K("Public", "public"), K("Function", "function"), N("f"), NL>>

AgainLines ==
    {PropertyLine,
     PublicFunctionLine,
     <<K("Function", "function"), N("g"), NL>>,
     <<K("End", "end"), NL>>,
     SetTo(<<"x">>) \o One}

NextAgain ==
    \/ CompileBegin("Compile", TRUE, <<>>)
    \/ ParseLibraryDeclaration(NoLine)
    \/ Statement(AgainLines, MaxHostLines)
    \/ FunctionEnd(AgainLines)
    \/ CompileEnd
    \/ CompileAgain

SpecAgain == Init /\ [][NextAgain]_vars

\* Compile has returned for the same text and import list as the call
\* before it.
CompiledAgain ==
    /\ pc = "done"
    /\ compiled # <<>>
    /\ compiled[Len(compiled)].text = m_symbolList
    /\ compiled[Len(compiled)].libraries = m_importList

\* C16: two compilations of the same text with the same import list on the
\* same Runtime return the same bytes, also for a text that declares a
\* property or a function of a library.
C16_Deterministic ==
    CompiledAgain =>
        /\ returned = compiled[Len(compiled)].returned
        /\ returned = "bytecode"
              => m_bytecode = compiled[Len(compiled)].bytecode

\* A text declares something in a library: a property or a function that
\* is not local.
Declares(text) ==
    \E i \in 1..Len(text) : text[i] \in {PropertyLine, PublicFunctionLine}

\* The same for the texts that declare nothing in a library.
C16_DeterministicWithoutDeclaration ==
    CompiledAgain /\ ~Declares(m_symbolList) =>
        /\ returned = compiled[Len(compiled)].returned
        /\ returned = "bytecode"
              => m_bytecode = compiled[Len(compiled)].bytecode

(***************************************************************************)
(* The Runtime called from several threads.  A method is the sequence of   *)
(* its steps: std::lock_guard locks at its declaration and unlocks when    *)
(* the method returns, on every path.  A Variant is two words, copied and  *)
(* stored one after the other.                                             *)
(***************************************************************************)
Lock(m) == [op |-> "lock", m |-> m]

Unlock(m) == [op |-> "unlock", m |-> m]

Do(what) == [op |-> what, m |-> ""]

\* std::lock_guard<Mutex> lock(m) at the top of a body.
Guarded(m, body) == <<Lock(m)>> \o body \o <<Unlock(m)>>

\* Compile with the perf mutex taken at the start and held while the
\* parser asks for the library.
MethodOpsNested(method) ==
    IF method = "Compile"
    THEN Guarded("perf", Guarded("library", <<Do("getLibrary")>>)
                             \o <<Do("perf")>>)
    ELSE Guarded(IF method \in {"GetLibrary", "LibraryExists"} THEN "library"
                 ELSE "perf", <<Do("none")>>)

\* SetProperty and GetProperty under different mutexes.
MethodOpsOtherMutex(method) ==
    IF method = "SetProperty"
    THEN Guarded("perf", <<Do("entry"), Do("storeA"), Do("storeB")>>)
    ELSE Guarded("property", <<Do("find"), Do("copyA"), Do("copyB")>>)

MethodOps(method) ==
    CASE method = "AddPerformanceParams" -> Guarded("perf", <<Do("perf")>>)
      [] method = "Compile" ->
            Guarded("library", <<Do("getLibrary")>>)
                \o Guarded("perf", <<Do("perf")>>)
      [] method = "FindFunction" -> Guarded("function", <<Do("none")>>)
      [] method = "GetScriptPerformanceStats" ->
            Guarded("perf", <<Do("perf")>>)
      [] method = "GetProperty" ->
            Guarded("property", <<Do("find"), Do("copyA"), Do("copyB")>>)
      [] method = "GetPropertyKeyValue" -> Guarded("property", <<Do("none")>>)
      [] method = "GetLibrary" -> Guarded("library", <<Do("getLibrary")>>)
      [] method = "LibraryExists" -> Guarded("library", <<Do("none")>>)
      [] method = "PropertyExists" -> Guarded("property", <<Do("none")>>)
      [] method = "RegisterFunction" -> Guarded("function", <<Do("insert")>>)
      [] method = "SetProperty" ->
            Guarded("property", <<Do("entry"), Do("storeA"), Do("storeB")>>)
      [] method = "SetPropertyKeyValue" ->
            Guarded("property", <<Do("none")>>)

RuntimeMethods ==
    {"AddPerformanceParams", "Compile", "FindFunction",
     "GetScriptPerformanceStats", "GetProperty", "GetPropertyKeyValue",
     "GetLibrary", "LibraryExists", "PropertyExists", "RegisterFunction",
     "SetProperty", "SetPropertyKeyValue"}

\* The two words of the Variant that holds v; null is 0.
Words(v) == <<v, v>>

\* m_functionMap.insert replacing the definition already there.
InsertOrAssign(map, id, definition) == Store(map, id, definition)

\* m_functionMap.insert(std::make_pair(id, definition)).
Insert(map, id, definition) ==
    IF id \in DOMAIN map THEN map ELSE Store(map, id, definition)

\* The step what of thread t, and the step it goes on with.
Effect(r, t, what) ==
    LET me == r.th[t]
        next == [r EXCEPT !.th[t].at = @ + 1]
        map == r.m_propertyMap
    IN  CASE what = "find" ->
               IF me.id \in DOMAIN map THEN next
               ELSE [r EXCEPT !.th[t].ret = Words(0),
                              !.th[t].at = Len(MethodOps(me.method)) - 1]
          [] what = "copyA" -> [next EXCEPT !.th[t].ret = <<map[me.id][1]>>]
          [] what = "copyB" ->
               [next EXCEPT !.th[t].ret = Append(@, map[me.id][2])]
          [] what = "entry" ->
               IF me.id \in DOMAIN map THEN next
               ELSE [next EXCEPT !.m_propertyMap = Store(@, me.id, Words(0))]
          [] what = "storeA" ->
               [next EXCEPT !.m_propertyMap[me.id] = <<me.value, @[2]>>]
          [] what = "storeB" ->
               [next EXCEPT !.m_propertyMap[me.id] = <<@[1], me.value>>]
          [] what = "insert" ->
               [next EXCEPT !.m_functionMap = Insert(@, me.id, me.value)]
          [] OTHER -> next

NextOp(r, t) == MethodOps(r.th[t].method)[r.th[t].at + 1]

\* A thread is blocked only in front of a mutex that is held.
CanStep(r, t) == NextOp(r, t).op = "lock" => r.owner[NextOp(r, t).m] = 0

Perform(r, t) ==
    LET op == NextOp(r, t)
        after == CASE op.op = "lock" ->
                        [r EXCEPT !.owner[op.m] = t, !.th[t].at = @ + 1]
                   [] op.op = "unlock" ->
                        [r EXCEPT !.owner[op.m] = 0, !.th[t].at = @ + 1]
                   [] OTHER -> Effect(r, t, op.op)
    IN  IF after.th[t].at = Len(MethodOps(r.th[t].method))
        THEN [after EXCEPT !.th[t] = IdleThread]
        ELSE after

\* Runtime::GetLibrary creates the library it does not find.
LibraryMapAfter(r, t) ==
    IF NextOp(r, t).op = "getLibrary" /\ r.th[t].name \notin DOMAIN m_libraryMap
    THEN [n \in DOMAIN m_libraryMap \cup {r.th[t].name} |->
             IF n \in DOMAIN m_libraryMap THEN m_libraryMap[n]
             ELSE EmptyLibrary]
    ELSE m_libraryMap

runtimeRest ==
    <<pc, api, lexerOk, returned, scriptCount, executeCount, compiled, vm,
      scan, heap, m_symbolList, m_error, errorText, m_breakAddress, m_bytecode,
      m_requireReturnValue, m_returnedValue, m_variableStackFrame, m_library,
      m_importList, m_localFunctions, callStack, breaks, loopEnd, resolved,
      leftover, calls>>

\* A thread calls a method.
ThreadEnter(methods, ids, values, names) ==
    \E t \in Threads, method \in methods, id \in ids, value \in values,
       name \in names :
        LET r == [rt EXCEPT !.th[t] = [method |-> method, at |-> 0,
                                       id |-> id, value |-> value,
                                       name |-> name, ret |-> <<>>]]
        IN  /\ rt.th[t].method = "none"
            /\ rt' = r
            /\ UNCHANGED <<m_libraryMap, runtimeRest>>

\* The next step of a thread inside a method.
ThreadStep ==
    \E t \in Threads :
        /\ rt.th[t].method # "none"
        /\ CanStep(rt, t)
        /\ rt' = Perform(rt, t)
        /\ m_libraryMap' = LibraryMapAfter(rt, t)
        /\ UNCHANGED runtimeRest

NextMutex ==
    \/ ThreadEnter(RuntimeMethods, {1}, {1}, {"a"})
    \/ ThreadStep

SpecMutex == Init /\ [][NextMutex]_vars

Held(t) == {m \in Mutexes : rt.owner[m] = t}

Inside(t) == rt.th[t].method # "none"

\* C17: no thread holds two of the four mutexes; a thread that has
\* returned holds none; and whenever a thread is inside a method, some
\* thread inside a method can take its next step.
C17_OneMutexNoDeadlock ==
    /\ \A t \in Threads :
          /\ Cardinality(Held(t)) <= 1
          /\ ~Inside(t) => Held(t) = {}
          /\ Inside(t) /\ ~CanStep(rt, t) => Held(t) = {}
    /\ (\E t \in Threads : Inside(t))
          => \E t \in Threads : Inside(t) /\ CanStep(rt, t)

\* Compile holds the perf mutex while another thread waits for it.
C17_Witness ==
    \E t, u \in Threads :
        /\ rt.th[t].method = "Compile"
        /\ Held(t) = {"perf"}
        /\ Inside(u)
        /\ ~CanStep(rt, u)

(***************************************************************************)
(* Threads that read and write the property 1.                             *)
(***************************************************************************)
PropertyMethods == {"GetProperty", "SetProperty", "PropertyExists"}

PropertyValues == {1, 2}

NextProperty ==
    \/ ThreadEnter(PropertyMethods, {1}, PropertyValues, {""})
    \/ ThreadStep

SpecProperty == Init /\ [][NextProperty]_vars

\* GetProperty has its return value and is about to unlock and return.
Returning(t) ==
    /\ rt.th[t].method = "GetProperty"
    /\ rt.th[t].at = Len(MethodOps("GetProperty")) - 1

Stored(id) ==
    IF id \in DOMAIN rt.m_propertyMap THEN rt.m_propertyMap[id] ELSE Words(0)

\* Thread t takes a step of GetProperty.
ReadStep(t) ==
    /\ rt'.th[t] # rt.th[t]
    /\ rt.th[t].method = "GetProperty" \/ rt'.th[t].method = "GetProperty"

\* C18: GetProperty returns a whole value, null or one that SetProperty was
\* called with, and it is the value the map holds: the one before a
\* concurrent write or the written one, never one word of each; readers
\* without a writer thus return the same value.  GetProperty of an id that
\* was never set returns null, and no step of GetProperty changes the map.
C18_AtomicWrite ==
    /\ [](\A t \in Threads :
             Returning(t) =>
                /\ rt.th[t].ret = Stored(rt.th[t].id)
                /\ rt.th[t].ret \in {Words(v) : v \in PropertyValues \cup {0}}
                /\ rt.th[t].id \notin DOMAIN rt.m_propertyMap
                      => rt.th[t].ret = Words(0))
    /\ [][\A t \in Threads :
             ReadStep(t) => rt'.m_propertyMap = rt.m_propertyMap]_vars

\* A read returns the value of the second write.
C18_Witness ==
    \E t \in Threads :
        /\ Returning(t)
        /\ rt.th[t].ret = Words(2)
        /\ \E u \in Threads :
              rt.th[u].method = "SetProperty" /\ rt.th[u].value = 1

(***************************************************************************)
(* A host that registers functions from its threads and compiles, while no *)
(* thread is inside the Runtime, scripts that define the function f as a   *)
(* local function and as a function of the current library.                *)
(***************************************************************************)
\* function f
LocalFunctionLine == <<K("Function", "function"), N("f"), NL>>

RegisterLines ==
    {LocalFunctionLine,
     PublicFunctionLine,
     <<K("End", "end"), NL>>,
     SetTo(<<"x">>) \o One}

Definitions == {1, 2}

Quiet == \A t \in Threads : ~Inside(t)

\* Compile called while no thread is inside the Runtime.
QuietCompileBegin == Quiet /\ CompileBegin("Compile", TRUE, <<>>)

\* The threads call the Runtime before and after the compilation.
HostEnter ==
    /\ pc \in {"idle", "done"}
    /\ ThreadEnter({"RegisterFunction", "FindFunction"}, {1}, Definitions,
                   {""})

HostStep == pc \in {"idle", "done"} /\ ThreadStep

NextRegister ==
    \/ QuietCompileBegin
    \/ ParseLibraryDeclaration(CallLibraryLines)
    \/ Statement(RegisterLines, MaxHostLines)
    \/ FunctionEnd(RegisterLines)
    \/ CompileEnd
    \/ HostEnter
    \/ HostStep

SpecRegister == Init /\ [][NextRegister]_vars

FunctionsOf(libName) ==
    IF libName \in DOMAIN m_libraryMap THEN m_libraryMap[libName].fns
    ELSE <<>>

\* The table that a definition on line goes to holds the signature f.
AlreadyDefined(line) ==
    IF line = LocalFunctionLine
    THEN \E i \in 1..Len(m_localFunctions) :
            m_localFunctions[i].parts = SignatureF
    ELSE \E i \in 1..Len(FunctionsOf(m_library)) :
            FunctionsOf(m_library)[i].parts = SignatureF

\* The parser takes line as a function definition at the root of a script
\* that has no error so far.
Defines(line) ==
    /\ pc = "statements"
    /\ ~m_error
    /\ callStack = <<>>
    /\ line \in {LocalFunctionLine, PublicFunctionLine}
    /\ m_symbolList' = Append(m_symbolList, line)

\* C19: a second definition of a signature in the same table, the local
\* one or the current library's, ends the compilation with 'Function
\* already defined' and leaves the tables as they were, and the script
\* returns no bytecode; no step of the Runtime changes the definition that
\* m_functionMap holds for an id.
C19_NoReplacement ==
    /\ [][/\ \A line \in RegisterLines :
                Defines(line) /\ AlreadyDefined(line) =>
                   /\ m_error'
                   /\ errorText' = IF line = LocalFunctionLine
                                   THEN "Function already defined in script"
                                   ELSE "Function already defined in library"
                   /\ m_localFunctions' = m_localFunctions
                   /\ m_libraryMap' = m_libraryMap
          /\ \A id \in DOMAIN rt.m_functionMap :
                /\ id \in DOMAIN rt'.m_functionMap
                /\ rt'.m_functionMap[id] = rt.m_functionMap[id]]_vars
    /\ [](pc = "done" /\ m_error => returned = "null")

\* The compilation has failed on the second definition, and a thread has
\* called RegisterFunction with another definition for the registered id.
C19_Witness ==
    /\ pc = "done"
    /\ errorText = "Function already defined in library"
    /\ \E t \in Threads :
          /\ rt.th[t].method = "RegisterFunction"
          /\ rt.th[t].at = 2
          /\ rt.th[t].value = 2
          /\ rt.m_functionMap[1] = 1

(***************************************************************************)
(* Scripts with import and library lines at the start and further down,    *)
(* and a function whose name starts with the keyword import.               *)
(***************************************************************************)
\* library b
LibraryLine == <<K("Library", "library"), N("b"), NL>>

\* function import a
FunctionImportLine ==
    <<K("Function", "function"), K("Import", "import"), N("a"), NL>>

ShapeLines ==
    {Import("a"),
     LibraryLine,
     FunctionImportLine,
     <<K("End", "end"), NL>>,
     SetTo(<<"x">>) \o One}

NextShape ==
    \/ CompileBegin("Compile", TRUE, <<>>)
    \/ ParseLibraryImports({Import("a")}, MaxImports)
    \/ ParseLibraryDeclaration({<<>>, LibraryLine})
    \/ Statement(ShapeLines, MaxHostLines + 1)
    \/ FunctionEnd(ShapeLines)
    \/ CompileEnd

SpecShape == Init /\ [][NextShape]_vars

\* The lines before line i are all import lines.
OnlyImportsBefore(i) == \A j \in 1..(i - 1) : m_symbolList[j] = Import("a")

\* The name of the library line that follows the imports, or the empty
\* name.
DeclaredName ==
    IF \E i \in 1..Len(m_symbolList) :
          m_symbolList[i] = LibraryLine /\ OnlyImportsBefore(i)
    THEN "b" ELSE ""

\* Line i is an import or library line below the library declaration or
\* below a statement.
Late(i) ==
    /\ m_symbolList[i] \in {Import("a"), LibraryLine}
    /\ ~OnlyImportsBefore(i)

\* Header, Library with the declared name, ..., Exit.
Shaped(bytecode) ==
    LET start == BytecodeHeader \o <<Cell("op", "Library", 0)>>
                     \o StringCells(DeclaredName)
    IN  /\ Len(bytecode) > Len(start)
        /\ SubSeq(bytecode, 1, Len(start)) = start
        /\ bytecode[Len(bytecode)] = Cell("op", "Exit", 0)

\* Line i has the words of a function defined above it.
CallsFunction(i) ==
    /\ m_symbolList[i] = Import("a")
    /\ \E j \in 1..(i - 1) : m_symbolList[j] = FunctionImportLine

\* C20 as stated: the bytecode of a compiled script is the header, Library
\* with the declared name, the statements and Exit at the end; an import
\* or library line below the library declaration or below a statement is
\* a compile error.
C20_ShapeAndLateLines ==
    pc = "done" =>
        /\ returned = "bytecode" => Shaped(m_bytecode)
        /\ (\E i \in 1..Len(m_symbolList) : Late(i)) => returned = "null"

\* C20: the bytecode of a compiled script is the header, Library with the
\* declared name, the statements and Exit at the end; an import or library
\* line below the library declaration or below a statement is a compile
\* error unless its words are those of a function defined above it, whose
\* call it then is.
C20_Shape ==
    pc = "done" =>
        /\ returned = "bytecode" => Shaped(m_bytecode)
        /\ (\E i \in 1..Len(m_symbolList) : Late(i) /\ ~CallsFunction(i))
              => returned = "null"

\* A compiled script with a library declaration and an import line that
\* calls the function import a.
C20_Witness ==
    /\ pc = "done"
    /\ returned = "bytecode"
    /\ DeclaredName = "b"
    /\ \E i \in 1..Len(m_symbolList) : Late(i)

(***************************************************************************)
(* Scripts with a loop whose condition follows its body, created and run   *)
(* by one call of execute().                                               *)
(***************************************************************************)
Limits == 0..2

\* n < T
LessThanLimit(T) == <<N("n"), O("LessThan"), I(T), NL>>

\* while n < T
WhileLine(T) == <<K("While", "while")>> \o LessThanLimit(T)

\* until n = T
UntilLine(T) == <<K("Until", "until"), N("n"), K("Equals", "="), I(T), NL>>

\* end while n < T
EndWhileLine(T) == <<K("End", "end"), K("While", "while")>> \o LessThanLimit(T)

\* end until n = T
EndUntilLine(T) ==
    <<K("End", "end"), K("Until", "until"), N("n"), K("Equals", "="), I(T),
      NL>>

PostLines ==
    {SetTo(<<"n">>) \o <<I(0), NL>>, <<K("Loop", "loop"), NL>>, CountPass}
        \cup {WhileLine(T) : T \in Limits}
        \cup {UntilLine(T) : T \in Limits \ {0}}
        \cup {EndWhileLine(T) : T \in Limits}
        \cup {EndUntilLine(T) : T \in Limits \ {0}}

NextPost ==
    \/ CompileBegin("Compile", TRUE, <<>>)
    \/ ParseLibraryDeclaration(NoLine)
    \/ Statement(PostLines, MaxHostLines + 1)
    \/ BlockEnd(PostLines)
    \/ CompileEnd
    \/ ScriptCreate
    \/ ScriptExecuteCall

SpecPost == Init /\ [][NextPost]_vars

\* set n to 0 / loop / set n to n + 1 / last
PostScript(last) ==
    <<SetTo(<<"n">>) \o <<I(0), NL>>, <<K("Loop", "loop"), NL>>, CountPass,
      last>>

Counted == Lookup(vm.variables, "n")

\* C21 as stated: the loop closed by end while <expr> or end until <expr>
\* compiles without error.
C21_EndWhileCompiles ==
    \A T \in Limits :
        /\ pc = "done" /\ m_symbolList = PostScript(EndWhileLine(T))
              => returned = "bytecode"
        /\ pc = "done" /\ T # 0 /\ m_symbolList = PostScript(EndUntilLine(T))
              => returned = "bytecode"

\* C21: the loop closed by while <expr> or until <expr> compiles without
\* error; its body runs once before the condition is evaluated and again
\* while the expression is true (while) or until it is true (until).  The
\* loop closed by end while <expr> or end until <expr> does not compile.
C21_PostTestLoop ==
    \A T \in Limits :
        /\ pc = "done" /\ m_symbolList = PostScript(WhileLine(T))
              => returned = "bytecode"
        /\ Finished /\ m_symbolList = PostScript(WhileLine(T))
              => Counted = IntegerValue(IF T = 0 THEN 1 ELSE T)
        /\ pc = "done" /\ T # 0 /\ m_symbolList = PostScript(UntilLine(T))
              => returned = "bytecode"
        /\ Finished /\ T # 0 /\ m_symbolList = PostScript(UntilLine(T))
              => Counted = IntegerValue(T)
        /\ /\ pc = "done"
           /\ m_symbolList \in {PostScript(EndWhileLine(T)),
                                PostScript(EndUntilLine(T))}
           => returned = "null"
        /\ /\ vm.status # "none"
           /\ m_symbolList \in {PostScript(WhileLine(T)),
                                PostScript(UntilLine(T))}
           /\ T # 0
           => vm.status \in {"ready", "finished"}

\* The body has run twice and the loop is left.
C21_Witness ==
    /\ Finished
    /\ m_symbolList = PostScript(WhileLine(2))
    /\ Counted = IntegerValue(2)

(***************************************************************************)
(* Functions with a return value whose bodies hold if, else if and else    *)
(* blocks with and without a return.                                       *)
(***************************************************************************)
IfLine == <<K("If", "if")>> \o One

ElseLine == <<K("Else", "else"), NL>>

ElseIfLine == <<K("Else", "else"), K("If", "if")>> \o One

EndLine == <<K("End", "end"), NL>>

BranchLines ==
    {FunctionReturn("f"), ReturnValueLine, IfLine, ElseLine, ElseIfLine,
     EndLine}

\* An else, else if or end line within the first MaxLines + 1 lines.
BranchEnd == Len(m_symbolList) <= MaxLines /\ BlockEnd(BranchLines)

NextBranch ==
    \/ CompileBegin("Compile", TRUE, <<>>)
    \/ ParseLibraryDeclaration(NoLine)
    \/ Statement(BranchLines, MaxLines)
    \/ BranchEnd
    \/ FunctionEnd(BranchLines)
    \/ CompileEnd

SpecBranch == Init /\ [][NextBranch]_vars

\* The line that opens the block which the line after i closes, d blocks
\* being closed in between.
RECURSIVE OpenerOf(_, _, _)
OpenerOf(lines, i, d) ==
    IF i < 1 THEN 0
    ELSE IF lines[i][1].type = "End" THEN OpenerOf(lines, i - 1, d + 1)
    ELSE IF lines[i][1].type \in {"If", "Function"}
    THEN IF d = 0 THEN i ELSE OpenerOf(lines, i - 1, d - 1)
    ELSE OpenerOf(lines, i - 1, d)

\* The lines that head the branches of the construct opened at line i and
\* closed at line j: the if, and every else if and else of the construct.
BranchHeads(lines, i, j) ==
    {i} \cup {k \in (i + 1)..(j - 1) :
                 /\ lines[k][1].type = "Else"
                 /\ OpenAt(lines, k) = OpenAt(lines, i + 1)}

\* The branch headed by line h holds a return with a value, at any depth.
BranchReturns(lines, i, j, h) ==
    \E k \in (h + 1)..(j - 1) :
        /\ lines[k] = ReturnValueLine
        /\ \A g \in BranchHeads(lines, i, j) : ~(h < g /\ g < k)

\* The step takes the end line of an if/else construct inside a function
\* that requires a return value.
ClosesIfElse ==
    /\ pc = "statements"
    /\ m_requireReturnValue
    /\ callStack # <<>>
    /\ callStack[Len(callStack)].kind \in {"if", "else"}
    /\ m_symbolList' = Append(m_symbolList, EndLine)
    /\ ~m_error'

\* C22: at the end of an if/else construct in a function that requires a
\* return value the flag m_returnedValue is set only if the construct ends
\* with an else and each of its branches holds a return with a value; after
\* a construct without a final else the flag is clear.
C22_ReturnedValueOfBranches ==
    [][ClosesIfElse =>
          LET lines == m_symbolList'
              j == Len(lines)
              i == OpenerOf(lines, j - 1, 0)
              heads == BranchHeads(lines, i, j)
          IN  /\ m_returnedValue' =>
                    /\ \E h \in heads : lines[h] = ElseLine
                    /\ \A h \in heads : BranchReturns(lines, i, j, h)
              /\ (\A h \in heads : lines[h] # ElseLine) => ~m_returnedValue'
      ]_vars

(***************************************************************************)
(* CheckVariable and ParseVariable on symbol lists of several lines, with  *)
(* variables of one to four words in scope.                                *)
(***************************************************************************)
MaxSymbols == 4

ScanSymbols == {N("a"), N("b"), N("c"), NL}

ScanLists == [1..MaxSymbols -> ScanSymbols]

ScanNames == {<<"a">>, <<"a", "b">>, <<"a", "b", "c">>, <<"c", "c", "c", "c">>}

\* What lies behind the end of the symbol list, for the scans that step
\* over it.
Beyond == [1..2 -> ScanSymbols]

InitScan ==
    /\ IdleParser(EmptyLibraryMap)
    /\ heap = NoHeap
    /\ \E symbols \in ScanLists, variables \in SUBSET ScanNames,
          cur \in 1..MaxSymbols :
          /\ variables # {}
          /\ scan = [symbols |-> symbols, variables |-> variables,
                     cur |-> cur, check |-> <<>>, parse |-> <<>>]

scanRest == <<pc, api, lexerOk, returned, scriptCount, executeCount,
              compiled, vm, rt, heap, m_symbolList, parserVars>>

\* The parser at m_currentSymbol = cur in the symbol list, with the
\* variables in the root scope.  IsSymbolValid tells the end of the list as
\* it tells a NewLine; what the iterator meets behind the end follows.
ScanParser(beyond) ==
    [ParserAt(scan.symbols \o <<NL>> \o beyond) EXCEPT
        !.cur = scan.cur,
        !.m_variableStackFrame = << <<scan.variables>> >>]

ScanCheckVariable ==
    /\ scan.symbols # <<>>
    /\ scan.check = <<>>
    /\ scan' = [scan EXCEPT
                   !.check = <<CheckVariable(ScanParser(<<>>), scan.cur)>>]
    /\ UNCHANGED scanRest

ScanParseVariable ==
    /\ scan.symbols # <<>>
    /\ scan.parse = <<>>
    /\ \E beyond \in Beyond :
          LET q == ParseVariable(ScanParser(beyond))
          IN  scan' = [scan EXCEPT
                          !.parse = <<[name |-> q.ret, cur |-> q.cur,
                                       error |-> q.m_error]>>]
    /\ UNCHANGED scanRest

NextScan == ScanCheckVariable \/ ScanParseVariable

SpecScan == InitScan /\ [][NextScan]_vars

\* The position of the NewLine that ends the line of cur, or of the end of
\* the list.
LineEnd(symbols, cur) ==
    CHOOSE e \in cur..(Len(symbols) + 1) :
        /\ e <= Len(symbols) => symbols[e].type = "NewLine"
        /\ \A k \in cur..(e - 1) : symbols[k].type # "NewLine"

\* The name made of the k symbols from cur on.
Prefix(symbols, cur, k) == [i \in 1..k |-> symbols[cur + i - 1].text]

\* The word counts of the in-scope variables that match a prefix of the
\* symbols of the line from cur on.
PrefixMatches(symbols, cur, variables) ==
    {k \in 1..(LineEnd(symbols, cur) - cur) :
        Prefix(symbols, cur, k) \in variables}

Scanned == scan.check # <<>> /\ scan.parse # <<>>

\* C23: when several variables in scope match a prefix of the symbols of
\* the line, CheckVariable reports and ParseVariable consumes the match of
\* the most words.
C23_LongestFirst ==
    Scanned =>
        LET matches == PrefixMatches(scan.symbols, scan.cur, scan.variables)
            k == SetMax(matches)
        IN  Cardinality(matches) >= 2 =>
                /\ scan.check[1].ok
                /\ scan.check[1].count = k
                /\ scan.check[1].name = Prefix(scan.symbols, scan.cur, k)
                /\ scan.parse[1].name = Prefix(scan.symbols, scan.cur, k)
                /\ scan.parse[1].cur = scan.cur + k

\* The positions of the symbols that ParseVariable joins to the candidate
\* name of n more symbols from pos on.
RECURSIVE JoinedBy(_, _, _)
JoinedBy(p, pos, n) ==
    IF n = 0 THEN {}
    ELSE IF IsSymbolValid(p, pos) /\ p.line[pos].text # ""
         THEN {pos} \cup JoinedBy(p, pos + 1, n - 1)
         ELSE JoinedBy(p, pos + 1, n - 1)

\* C28: where CheckVariable finds a variable of n symbols, ParseVariable
\* returns the same name and moves the cursor on by n symbols, and no
\* candidate name is made of symbols behind the NewLine that ends the line
\* or behind the end of the symbol list.
C28_CheckAndParseAgree ==
    Scanned /\ scan.check[1].ok =>
        /\ scan.parse[1].name = scan.check[1].name
        /\ scan.parse[1].cur = scan.cur + scan.check[1].count
        /\ \A k \in JoinedBy(ScanParser(<<>>), scan.cur + 1,
                             GetMaxVariableParts(<< <<scan.variables>> >>) - 1) :
              k < LineEnd(scan.symbols, scan.cur)

(***************************************************************************)
(* The bytecode writer under opcodes, address placeholders and backfills   *)
(* in any order.  The offsets of the placeholders not yet backfilled are   *)
(* kept on the call stack, as the locals of ParseIfElse and ParseLoop are. *)
(***************************************************************************)
MaxBytes == 8

writerRest ==
    <<pc, hostVars, m_symbolList, m_error, errorText, m_breakAddress,
      m_requireReturnValue, m_returnedValue, m_variableStackFrame, m_library,
      m_importList, m_localFunctions, m_libraryMap, breaks, loopEnd,
      resolved, leftover, calls>>

WriterEmitOpcode ==
    /\ pc = "idle"
    /\ Len(m_bytecode) < MaxBytes
    /\ \E opcode \in {"Jump", "Pop"} :
          m_bytecode' = EmitOpcode(ParserAt(<<>>), opcode).m_bytecode
    /\ UNCHANGED <<callStack, writerRest>>

WriterPlaceholder ==
    /\ pc = "idle"
    /\ Len(m_bytecode) + 4 <= MaxBytes
    /\ LET p == ParserAt(<<>>)
           offset == Tell(p)
       IN  /\ m_bytecode' = EmitAddressPlaceholder(p).m_bytecode
           /\ callStack' = Append(callStack,
                                  Activation("if", offset, 0, FALSE, 0))
    /\ UNCHANGED writerRest

\* The sequence without its i-th element.
RemoveAt(seq, i) == SubSeq(seq, 1, i - 1) \o SubSeq(seq, i + 1, Len(seq))

WriterBackfill ==
    /\ pc = "idle"
    /\ \E i \in 1..Len(callStack) :
          /\ m_bytecode' =
                 EmitAddressBackfill(ParserAt(<<>>), callStack[i].a1).m_bytecode
          /\ callStack' = RemoveAt(callStack, i)
    /\ UNCHANGED writerRest

NextWriter == WriterEmitOpcode \/ WriterPlaceholder \/ WriterBackfill

SpecWriter == Init /\ [][NextWriter]_vars

Jumps(bytecode) ==
    LET instructions == LogBytecode(bytecode).instructions
    IN  {i \in 1..Len(instructions) :
            instructions[i].opcode \in {"Jump", "JumpFalse", "JumpTrue"}}

\* C25: in the bytecode that a compilation returns, every Jump, JumpFalse
\* and JumpTrue carries the offset of the first byte of an instruction of
\* the buffer behind the header; no jump keeps the zero of its placeholder.
C25_JumpTargets ==
    pc = "done" /\ returned = "bytecode" =>
        LET instructions == LogBytecode(m_bytecode).instructions
        IN  \A i \in Jumps(m_bytecode) :
                /\ instructions[i].value >= HeaderSize
                /\ \E j \in 1..Len(instructions) :
                      instructions[j].at = instructions[i].value

(***************************************************************************)
(* Scripts that declare properties and functions of the library and fail   *)
(* at the declaration or at a later line.                                  *)
(***************************************************************************)
ReadonlyLine ==
    <<K("Set", "set"), K("Public", "public"), K("Readonly", "readonly"),
      N("p"), NL>>

FailLines ==
    {PropertyLine,
     ReadonlyLine,
     PublicFunctionLine,
     <<K("End", "end"), NL>>,
     SetTo(<<"x">>) \o One,
     SetTo(<<"x">>) \o <<NL>>}

NextFail ==
    \/ CompileBegin("Compile", TRUE, <<>>)
    \/ ParseLibraryDeclaration(NoLine)
    \/ Statement(FailLines, MaxHostLines)
    \/ FunctionEnd(FailLines)
    \/ CompileEnd

SpecFail == Init /\ [][NextFail]_vars

\* C26: after a compilation that returned null no library of the Runtime
\* holds a property name or a function signature that was not there before
\* the compilation; here every library was empty before.
C26_FailureLeavesLibraries ==
    pc = "done" /\ returned = "null" =>
        \A n \in DOMAIN m_libraryMap :
            m_libraryMap[n].props = {} /\ m_libraryMap[n].fns = <<>>

\* C27: when bytecode that compiled has run to its Exit, every ScopeBegin
\* it executed was followed by its ScopeEnd, loops left through break
\* included; and the parser is at the root scope of the root frame between
\* two top-level statements.
C27_ScopesBalanced ==
    /\ Finished => vm.scopes = <<>>
    /\ pc = "statements" /\ callStack = <<>> /\ ~m_error =>
           /\ IsRootFrame(m_variableStackFrame)
           /\ IsRootScope(m_variableStackFrame)

(***************************************************************************)
(* The block heap.  A call is one step: every call holds m_mutex from its  *)
(* first access to its return.  The memory of a block stays what it was    *)
(* when the block is handed to m_freeFn, and m_allocFn may return the      *)
(* address again, so a write through a pointer to a freed block lands in   *)
(* whatever lies at the address then.                                      *)
(***************************************************************************)
MaxHeapCalls == 6

AllocSizes == {0, 1, 5, 13}

NextHighestMultiple(value, multiple) ==
    ((value + multiple - 1) \div multiple) * multiple

\* AllocBlock(bytes), with the address that m_allocFn returns.
AllocBlock(h, bytes, address) ==
    LET blockSize == IF bytes > h.m_allocBlockSize
                     THEN NextHighestMultiple(bytes, Alignment)
                     ELSE h.m_allocBlockSize
    IN  [h EXCEPT
            !.mem[address] = [NoBlock EXCEPT !.capacity = blockSize,
                                             !.serial = h.mem[address].serial + 1],
            !.allocated = @ \cup {address},
            !.m_stats.currentAllocatedMemory = @ + blockSize + SizeofMemoryBlock,
            !.m_stats.externalAllocCount = @ + 1,
            !.m_stats.currentBlockCount = @ + 1]

Alloc(h, bytes, address) ==
    IF bytes = 0 THEN [h EXCEPT !.ret = NullPtr]
    ELSE
    LET requestedBytes == NextHighestMultiple(bytes + SizeofMemoryHeader,
                                              Alignment)
        a == IF h.m_head = 0
             THEN [AllocBlock(h, requestedBytes, address) EXCEPT
                      !.m_head = address, !.m_tail = address]
             ELSE IF requestedBytes > h.mem[h.m_tail].capacity
                                         - h.mem[h.m_tail].allocatedBytes
             THEN [AllocBlock(h, requestedBytes, address) EXCEPT
                      !.mem[h.m_tail].next = address,
                      !.mem[address].prev = h.m_tail,
                      !.m_tail = address]
             ELSE h
        tail == a.m_tail
        ptr == [block |-> tail, at |-> a.mem[tail].allocatedBytes,
                bytes |-> requestedBytes, serial |-> a.mem[tail].serial]
    IN  [a EXCEPT
            !.mem[tail].allocatedBytes = @ + requestedBytes,
            !.mem[tail].usedBytes = @ + requestedBytes,
            !.mem[tail].count = @ + 1,
            !.m_stats.currentUsedMemory = @ + requestedBytes,
            !.m_stats.internalAllocCount = @ + 1,
            !.live = @ \cup {ptr},
            !.ret = ptr]

FreeBlock(h, block) ==
    IF block = h.m_tail /\ block # h.m_head
    THEN [h EXCEPT !.mem[block].allocatedBytes = 0,
                   !.mem[block].usedBytes = 0]
    ELSE LET a == IF block = h.m_head
                  THEN [h EXCEPT !.m_head = h.mem[block].next]
                  ELSE h
             b == IF a.mem[block].prev # 0
                  THEN [a EXCEPT !.mem[a.mem[block].prev].next =
                                     a.mem[block].next]
                  ELSE a
             c == IF b.mem[block].next # 0
                  THEN [b EXCEPT !.mem[b.mem[block].next].prev =
                                     b.mem[block].prev]
                  ELSE b
         IN  [c EXCEPT
                 !.m_stats.externalFreeCount = @ + 1,
                 !.m_stats.currentAllocatedMemory =
                     @ - (c.mem[block].capacity + SizeofMemoryBlock),
                 !.m_stats.currentBlockCount = @ - 1,
                 !.allocated = @ \ {block}]

\* FreeInternal that frees the block whatever its count.
FreeInternalAnyCount(h, header) ==
    FreeBlock([h EXCEPT !.mem[header.block].usedBytes = @ - header.bytes,
                        !.mem[header.block].count = @ - 1,
                        !.live = @ \ {header}],
              header.block)

FreeInternal(h, header) ==
    LET memBlock == header.block
        a == [h EXCEPT
                 !.mem[memBlock].usedBytes = @ - header.bytes,
                 !.mem[memBlock].count = @ - 1,
                 !.m_stats.currentUsedMemory = @ - header.bytes,
                 !.m_stats.internalFreeCount = @ + 1,
                 !.live = @ \ {header}]
    IN  IF a.mem[memBlock].count = 0 THEN FreeBlock(a, memBlock) ELSE a

\* Free(void *) and Free(MemoryHeader *).
Free(h, ptr) == FreeInternal(h, ptr)

Realloc(h, ptr, bytes, address) ==
    IF ptr = NullPtr THEN Alloc(h, bytes, address)
    ELSE IF bytes = 0 THEN [Free(h, ptr) EXCEPT !.ret = NullPtr]
    ELSE IF bytes < ptr.bytes - SizeofMemoryHeader
    THEN [h EXCEPT !.ret = ptr]
    ELSE LET a == Alloc(h, bytes, address)
         IN  [Free(a, ptr) EXCEPT !.ret = a.ret]

\* The loop of ShutDown from the block curr on; a list that runs in a
\* circle is left after budget blocks.
RECURSIVE ShutDownFrom(_, _, _)
ShutDownFrom(h, curr, budget) ==
    IF curr = 0 \/ budget = 0 THEN h
    ELSE LET next == h.mem[curr].next
             a == IF h.mem[curr].usedBytes = 0
                  THEN [h EXCEPT
                           !.m_stats.externalFreeCount = @ + 1,
                           !.m_stats.currentAllocatedMemory =
                               @ - (h.mem[curr].capacity + SizeofMemoryBlock),
                           !.allocated = @ \ {curr}]
                  ELSE h
         IN  ShutDownFrom(a, next, budget - 1)

ShutDown(h) ==
    [ShutDownFrom(h, h.m_head, 2 * MaxBlocks) EXCEPT
        !.m_head = 0, !.m_tail = 0]

heapRest == <<pc, api, lexerOk, returned, scriptCount, executeCount,
              compiled, vm, rt, scan, m_symbolList, parserVars>>

\* The heap after the call op(ptr, bytes) that left it as h; the arguments
\* and the return value are kept for Realloc.
AfterCall(h, op, ptr, bytes) ==
    [h EXCEPT !.last = IF op = "Realloc"
                       THEN [op |-> op, ptr |-> ptr, bytes |-> bytes,
                             ret |-> h.ret]
                       ELSE [NoCall EXCEPT !.op = op],
              !.made = @ + 1,
              !.ret = NullPtr]

\* The addresses that m_allocFn may return: one that m_freeFn got back, or
\* the first of those never handed out.
Fresh(h) == {a \in Addresses : h.mem[a].serial = 0 /\ a \notin h.allocated}

FreeAddresses(h) ==
    {a \in Addresses \ h.allocated :
        h.mem[a].serial > 0 \/ \A b \in Fresh(h) : a <= b}

HeapAlloc ==
    /\ heap.made < MaxHeapCalls
    /\ \E bytes \in AllocSizes, address \in FreeAddresses(heap) :
          heap' = AfterCall(Alloc(heap, bytes, address), "Alloc", NullPtr, bytes)
    /\ UNCHANGED heapRest

HeapFree ==
    /\ heap.made < MaxHeapCalls
    /\ \E ptr \in heap.live :
          heap' = AfterCall(Free(heap, ptr), "Free", ptr, 0)
    /\ UNCHANGED heapRest

HeapRealloc ==
    /\ heap.made < MaxHeapCalls
    /\ \E ptr \in heap.live \cup {NullPtr}, bytes \in AllocSizes,
          address \in FreeAddresses(heap) :
          heap' = AfterCall(Realloc(heap, ptr, bytes, address), "Realloc", ptr,
                         bytes)
    /\ UNCHANGED heapRest

HeapShutDown ==
    /\ heap.made < MaxHeapCalls
    /\ heap' = AfterCall(ShutDown(heap), "ShutDown", NullPtr, 0)
    /\ UNCHANGED heapRest

NextHeap == HeapAlloc \/ HeapFree \/ HeapRealloc \/ HeapShutDown

SpecHeap == Init /\ [][NextHeap]_vars

\* The payload that the header of ptr records.
Payload(ptr) == ptr.bytes - SizeofMemoryHeader

\* The pointer lies in a block that is neither handed to m_freeFn nor reset
\* since the pointer was returned.
InsideBlock(ptr) ==
    /\ ptr.block \in heap.allocated
    /\ heap.mem[ptr.block].serial = ptr.serial
    /\ ptr.at + ptr.bytes <= heap.mem[ptr.block].allocatedBytes

Overlap(p, q) ==
    /\ p.block = q.block
    /\ p.at < q.at + q.bytes
    /\ q.at < p.at + p.bytes

RECURSIVE BlocksFrom(_, _, _)
BlocksFrom(h, curr, budget) ==
    IF curr = 0 \/ budget = 0 THEN <<>>
    ELSE <<curr>> \o BlocksFrom(h, h.mem[curr].next, budget - 1)

RECURSIVE SumOf(_, _)
SumOf(blocks, field) ==
    IF blocks = <<>> THEN 0
    ELSE heap.mem[Head(blocks)][field] + SumOf(Tail(blocks), field)

\* C30: the statistics of the heap agree with the list of its blocks:
\* currentBlockCount is the number of blocks of the list and the difference
\* of the external counts, currentUsedMemory the sum of their usedBytes,
\* and the difference of the internal counts the sum of their counts.
C30_StatsAgree ==
    LET blocks == BlocksFrom(heap, heap.m_head, 2 * MaxBlocks)
        stats == heap.m_stats
    IN  /\ stats.currentBlockCount = Len(blocks)
        /\ stats.currentBlockCount =
               stats.externalAllocCount - stats.externalFreeCount
        /\ stats.currentUsedMemory = SumOf(blocks, "usedBytes")
        /\ stats.internalAllocCount - stats.internalFreeCount =
               SumOf(blocks, "count")

=============================================================================
